---- MODULE Spec2Model ----
(***************************************************************************)
(* A model of the household-budget application src/src/App.jsx: the React  *)
(* component state, the hosted store it talks to (tables of schema.sql),   *)
(* the browser's localStorage, and the asynchronous handlers.              *)
(*                                                                         *)
(* A handler is a task in a slot of `tasks`.  Its Start action is the      *)
(* synchronous prefix of the handler up to its first await (the request is *)
(* issued); every later step is "the store serves the pending request and  *)
(* the continuation runs up to the next await".  Steps of different tasks  *)
(* interleave freely, as the awaits of the single-threaded event loop do.  *)
(* A window.confirm that follows an await is a step of its own and blocks  *)
(* every other step of the page while it is open.                          *)
(*                                                                         *)
(* Amount texts (form fields, CSV cells) are records [t, h]: t says what   *)
(* Number(text) sees and h is the value in halves, so that 1.5 is h = 3,   *)
(* Math.floor and the integer columns of the store have something to do.   *)
(* A month key "YYYY-MM" is the pair <<YYYY, MM>>.                         *)
(***************************************************************************)
EXTENDS Integers, Sequences, FiniteSets, Bags, TLC

VARIABLES
  session,        \* useState session: NoSession or the signed-in user id
  status,         \* useState status: [msg, err], err the error.message part
  loading,        \* useState loading
  transactions,   \* useState transactions: bag of loaded rows
  categories,     \* useState categories: sequence of names
  budgets,        \* useState budgets: category -> amount (partial function)
  budgetDrafts,   \* useState budgetDrafts: category -> amount text
  copyFromMonth,  \* useState copyFromMonth
  month,          \* useState month
  form,           \* useState form: [amount, type, purpose, category, note]
  txStore,        \* table public.transactions: bag of rows
  catStore,       \* table public.categories: rows in created_at order
  budStore,       \* table public.budgets: set of rows
  flags,          \* localStorage "budget-copy-<month>" entries
  prompts,        \* rollover confirm dialogs shown so far, per target month
  tz,             \* the device's offset from UTC, in hours
  netOk,          \* whether a request reaches the store and its answer returns
  tasks,          \* the handlers in flight, per slot
  filters,        \* useState filters: [type, purpose, category, query, dateFrom, dateTo]
  downloads       \* the file the page last handed to the browser to save

memVars   == <<session, status, loading, transactions, categories, budgets,
               budgetDrafts, copyFromMonth, month, form>>
storeVars == <<txStore, catStore, budStore>>
envVars   == <<flags, prompts, tz, netOk>>
viewVars  == <<filters, downloads>>
vars      == <<memVars, storeVars, envVars, tasks, viewVars>>

----------------------------------------------------------------------------
(* Bounds of the model. *)
MaxInFlight == 2      \* handlers in flight at the same time
MaxTx == 1            \* stored transactions up to which one more is entered

Slots == 1..MaxInFlight

----------------------------------------------------------------------------
(* Program constants.  Names are romanised: shokuhi (food), sonota        *)
(* (other), rodo (labour); ryoko (travel) is a name the user adds.         *)
(* defaultCategories keeps the first name of the source's list of ten and  *)
(* the one name it shares with incomeCategories; incomeCategories keeps    *)
(* its first name and the shared one.                                      *)
defaultCategories == <<"shokuhi", "sonota">>
incomeCategories  == <<"rodo", "sonota">>
purposes          == {"consumption", "waste", "investment"}
types             == {"expense", "income"}

NoSession == "none"
NoMonth   == <<0, 0>>
Months    == {<<2023, 12>>, <<2024, 1>>, <<2024, 2>>}
CatNames  == {"shokuhi", "sonota", "ryoko"}
TzOffsets == {0, 9}

SeqToSet(q) == {q[i] : i \in 1..Len(q)}
Includes(q, x) == \E i \in 1..Len(q) : q[i] = x

(* Amount texts. *)
Num(h)    == [t |-> "num", h |-> h]
NaNText   == [t |-> "nan", h |-> 0]
EmptyText == [t |-> "empty", h |-> 0]
Undefined == [t |-> "undefined", h |-> 0]
\* a check that takes every text for a number
IsNaN_Never(x) == FALSE
\* Number(text) is NaN
IsNaN(x)  == x.t = "nan"
\* Number(text) in halves; Number('') is 0
NumberH(x) == IF x.t = "num" THEN x.h ELSE 0
\* Math.abs left out
AbsH_Signed(h) == h
AbsH(h)    == IF h < 0 THEN -h ELSE h
\* Math.floor of a value in halves, as a whole number
FloorH(h)  == IF h >= 0 THEN h \div 2 ELSE -((1 - h) \div 2)
IsWhole(h) == h % 2 = 0
\* schema.sql: amount integer. A payload carries the JSON number (halves);
\* a number with a fraction is refused, a whole one is stored.
FitsInteger(r) == IsWhole(r.amount)
AsStored(r) == [r EXCEPT !.amount = @ \div 2]

St(msg, err) == [msg |-> msg, err |-> err]
NoStatus == St("", "")

----------------------------------------------------------------------------
(* Texts. A text is a string of the model; Chars gives its characters as  *)
(* a sequence in which a comma, a double quote, a blank and a line break  *)
(* are characters of their own and every other element stands for a run   *)
(* of ordinary characters.                                                *)
Composite == {"a,b", "\"hi\"", " pad ", "a, \"b\"", "two\nlines"}

Chars(str) ==
  CASE str = ""             -> <<>>
    [] str = "a,b"          -> <<"a", ",", "b">>
    [] str = "\"hi\""       -> <<"\"", "hi", "\"">>
    [] str = " pad "        -> <<" ", "pad", " ">>
    [] str = "a, \"b\""     -> <<"a", ",", " ", "\"", "b", "\"">>
    [] str = "two\nlines"   -> <<"two", "\n", "lines">>
    [] OTHER                -> <<str>>

\* a text that is none of the texts of the model
Unlisted == "?"

Str(chars) ==
  IF chars = <<>> THEN ""
  ELSE IF \E c \in Composite : Chars(c) = chars
  THEN CHOOSE c \in Composite : Chars(c) = chars
  ELSE IF Len(chars) = 1 THEN chars[1]
  ELSE Unlisted

Whitespace == {" ", "\n", "\r"}

\* String.prototype.trim on a sequence of characters
RECURSIVE TrimStart(_)
TrimStart(chars) ==
  IF chars # <<>> /\ Head(chars) \in Whitespace THEN TrimStart(Tail(chars)) ELSE chars

RECURSIVE TrimEnd(_)
TrimEnd(chars) ==
  IF chars # <<>> /\ chars[Len(chars)] \in Whitespace
  THEN TrimEnd(SubSeq(chars, 1, Len(chars) - 1))
  ELSE chars

Trim(chars) == TrimEnd(TrimStart(chars))

----------------------------------------------------------------------------
(* Dates: new Date(year, monthIndex, 1) is local midnight; toISOString     *)
(* prints that instant in UTC, which east of Greenwich is the day before.  *)
LocalFirstOfMonth(year, monthIndex) ==
  LET total == year * 12 + monthIndex
  IN  <<total \div 12, (total % 12) + 1>>

\* the dates of the model as numbers: ISO dates compare as strings the way
\* these numbers compare
DateKey(d) ==
  CASE d = "2024-01-05" -> 20240105
    [] d = "2024-01-10" -> 20240110
    [] d = "2024-02-01" -> 20240201
    [] d = "2024-02-02" -> 20240202
    [] d = "2024-02-03" -> 20240203
    [] d = "2024-02-10" -> 20240210
    [] d = "2023-12-31" -> 20231231
    [] OTHER -> 0

\* line 50: the first seven characters, or '' for no date
toMonth(value) ==
  IF DateKey(value) = 0 THEN NoMonth
  ELSE <<DateKey(value) \div 10000, (DateKey(value) \div 100) % 100>>

MonthBefore(ym) == IF ym[2] = 1 THEN <<ym[1] - 1, 12>> ELSE <<ym[1], ym[2] - 1>>

ToISOMonth(ym, offset) == IF offset > 0 THEN MonthBefore(ym) ELSE ym

getPreviousMonthFrom(monthValue, offset) ==
  ToISOMonth(LocalFirstOfMonth(monthValue[1], monthValue[2] - 2), offset)

----------------------------------------------------------------------------
(* The budgets table. *)
BRow(u, m, c, a) == [user_id |-> u, month |-> m, category |-> c, amount |-> a]
BKey(r) == <<r.user_id, r.month, r.category>>

\* row level security: a select sees the rows of auth.uid()
SelectBudgets(store, u, m) == {r \in store : r.user_id = u /\ r.month = m}

\* unique (user_id, month, category)
BudgetsUniqueViolation(store, payload) ==
  \/ \E p \in payload, r \in store : BKey(p) = BKey(r)
  \/ \E p, q \in payload : p # q /\ BKey(p) = BKey(q)

\* the map loadBudgets builds from the rows
BudgetMap(rows) ==
  [c \in {r.category : r \in rows} |->
     (CHOOSE r \in rows : r.category = c).amount]

\* setBudgetDrafts((prev) => ({...prev, ...map}))
MergeDrafts(prev, map) ==
  [c \in DOMAIN prev \cup DOMAIN map |->
     IF c \in DOMAIN map THEN Num(2 * map[c]) ELSE prev[c]]

Retarget(rows, u, m) == {BRow(u, m, r.category, r.amount) : r \in rows}

----------------------------------------------------------------------------
(* Tasks. *)
Idle == [kind |-> "idle", pc |-> "idle", m |-> NoMonth, m2 |-> NoMonth,
         n |-> "", n2 |-> "", amt |-> 0, rows |-> {}, txs |-> EmptyBag,
         names |-> <<>>, fc |-> "", header |-> "", body |-> <<>>,
         token |-> NoSession]

\* a request sent now carries the access token of the session there is now
Issue(t) == [t EXCEPT !.token = session]
\* session.user.id inside a handler is the session of the render that made
\* the handler: a handler starts only with a session, and there is one user
ClosureUser == "A"

IsIdle(s) == tasks[s].pc = "idle"
\* a confirm dialog is open: the page runs nothing else
Blocked == \E s \in Slots : tasks[s].pc = "mac_confirm"
\* the page can start a handler in slot s
CanStart(s) ==
  /\ session # NoSession
  /\ ~Blocked
  /\ IsIdle(s)
\* s is the first free slot (slots are interchangeable)
FirstFree(s) == IsIdle(s) /\ \A r \in Slots : r < s => ~IsIdle(r)

----------------------------------------------------------------------------
(* What the caller does once the call it awaits returns. *)
EpStatus(t, st) ==
  CASE t.kind = "copyBudgets"        -> St("budgets copied", "")
    [] t.kind = "importBudgets"      -> St("budgets imported", "")
    [] t.kind = "importTransactions" -> St("transactions imported", "")
    [] t.kind = "importCategories"   -> St("categories imported", "")
    [] OTHER -> st

\* loadBudgets called by an effect is the one caller that leaves `loading`
EpLoading(t, ld) == IF t.kind = "loadBudgets" THEN ld ELSE FALSE

Finish(s, st, ld) ==
  /\ tasks' = [tasks EXCEPT ![s] = Idle]
  /\ status' = EpStatus(tasks[s], st)
  /\ loading' = EpLoading(tasks[s], ld)

\* the handler returns by itself, before any call it would await
Abort(s, st, ld) ==
  /\ tasks' = [tasks EXCEPT ![s] = Idle]
  /\ status' = st
  /\ loading' = ld

----------------------------------------------------------------------------
(* The network: a request fails while the store cannot be reached. *)
NetFlip ==
  /\ netOk' = ~netOk
  /\ UNCHANGED <<memVars, storeVars, flags, prompts, tz, viewVars, tasks>>

----------------------------------------------------------------------------
(* Month and budget inputs. *)

\* the effects of lines 144-154 call loadBudgets(month)
StartLoadBudgets(s) ==
  /\ CanStart(s)
  /\ month # NoMonth
  /\ tasks' = [tasks EXCEPT ![s] =
       [Issue(Idle) EXCEPT !.kind = "loadBudgets", !.pc = "lb_select", !.m = month]]
  /\ UNCHANGED <<memVars, storeVars, envVars, viewVars>>

\* the month input (line 995) and the effect of lines 151-154
SetMonth(s, mo) ==
  /\ CanStart(s)
  /\ mo # month
  /\ month' = mo
  /\ tasks' = [tasks EXCEPT ![s] =
       [Issue(Idle) EXCEPT !.kind = "loadBudgets", !.pc = "lb_select", !.m = mo]]
  /\ UNCHANGED <<session, status, loading, transactions, categories, budgets,
                 budgetDrafts, copyFromMonth, form, storeVars, envVars, viewVars>>

\* the copy-source month input (line 1372); NoMonth is the cleared input
SetCopyFromMonth(mo) ==
  /\ session # NoSession
  /\ ~Blocked
  /\ mo # copyFromMonth
  /\ copyFromMonth' = mo
  /\ UNCHANGED <<session, status, loading, transactions, categories, budgets,
                 budgetDrafts, month, form, storeVars, envVars, viewVars, tasks>>

DraftInputs == {NaNText, Num(-1), Num(3), Num(4)}

handleBudgetChange(name, value) ==
  /\ session # NoSession
  /\ ~Blocked
  /\ Includes(categories, name)
  /\ budgetDrafts' = [c \in DOMAIN budgetDrafts \cup {name} |->
                        IF c = name THEN value ELSE budgetDrafts[c]]
  /\ budgetDrafts' # budgetDrafts
  /\ UNCHANGED <<session, status, loading, transactions, categories, budgets,
                 copyFromMonth, month, form, storeVars, envVars, viewVars, tasks>>

----------------------------------------------------------------------------
(* loadBudgets and maybeAutoCopyBudgets, also as the call the budget       *)
(* handlers end with.                                                      *)

\* lines 382-406, and lines 409-412 when the month has no budget
LbSelect(s) ==
  LET t    == tasks[s]
      data == SelectBudgets(budStore, t.token, t.m)
      map  == BudgetMap(data)
  IN
  /\ t.pc = "lb_select"
  /\ ~Blocked
  /\ IF ~netOk
     THEN /\ Finish(s, St("budget load error", "network"), loading)
          /\ UNCHANGED <<budgets, budgetDrafts>>
     ELSE /\ budgets' = map
          /\ budgetDrafts' = MergeDrafts(budgetDrafts, map)
          /\ IF data = {} /\ flags[t.m] = ""
             THEN /\ tasks' = [tasks EXCEPT ![s] =
                       [Issue(t) EXCEPT !.pc = "mac_select",
                                 !.m2 = getPreviousMonthFrom(t.m, tz)]]
                  /\ UNCHANGED <<status, loading>>
             ELSE Finish(s, status, loading)
  /\ UNCHANGED <<session, transactions, categories, copyFromMonth, month, form,
                 storeVars, envVars, viewVars>>

\* lines 412-417: the previous month's rows arrive; the flag is written and
\* the confirm dialog opens
MacSelect(s) ==
  LET t    == tasks[s]
      data == SelectBudgets(budStore, t.token, t.m2)
  IN
  /\ t.pc = "mac_select"
  /\ ~Blocked
  /\ IF ~netOk \/ data = {}
     THEN /\ flags' = [flags EXCEPT ![t.m] = "skipped"]
          /\ Finish(s, status, loading)
          /\ UNCHANGED prompts
     ELSE /\ flags' = [flags EXCEPT ![t.m] = "prompted"]
          /\ prompts' = [prompts EXCEPT ![t.m] = @ + 1]
          /\ tasks' = [tasks EXCEPT ![s] =
               [t EXCEPT !.pc = "mac_confirm", !.rows = data]]
          /\ UNCHANGED <<status, loading>>
  /\ UNCHANGED <<session, transactions, categories, budgets, budgetDrafts,
                 copyFromMonth, month, form, storeVars, tz, netOk, viewVars>>

\* line 418: the user's answer; lines 419-425 on accept
MacConfirm(s, accept) ==
  LET t == tasks[s] IN
  /\ t.pc = "mac_confirm"
  /\ IF accept
     THEN /\ tasks' = [tasks EXCEPT ![s] =
               [Issue(t) EXCEPT !.pc = "mac_insert",
                         !.rows = Retarget(t.rows, ClosureUser, t.m)]]
          /\ UNCHANGED <<status, loading>>
     ELSE Finish(s, status, loading)
  /\ UNCHANGED <<session, transactions, categories, budgets, budgetDrafts,
                 copyFromMonth, month, form, storeVars, envVars, viewVars>>

\* lines 425-430
MacInsert(s) ==
  LET t == tasks[s] IN
  /\ t.pc = "mac_insert"
  /\ ~Blocked
  /\ IF ~netOk
     THEN /\ Finish(s, St("budget copy error", "network"), loading)
          /\ UNCHANGED budStore
     ELSE IF \E r \in t.rows : r.user_id # t.token
     THEN /\ Finish(s, St("budget copy error", "row-level security"), loading)
          /\ UNCHANGED budStore
     ELSE IF BudgetsUniqueViolation(budStore, t.rows)
     THEN /\ Finish(s, St("budget copy error", "duplicate key"), loading)
          /\ UNCHANGED budStore
     ELSE /\ budStore' = budStore \cup t.rows
          /\ tasks' = [tasks EXCEPT ![s] = [Issue(t) EXCEPT !.pc = "lb_select", !.rows = {}]]
          /\ UNCHANGED <<status, loading>>
  /\ UNCHANGED <<session, transactions, categories, budgets, budgetDrafts,
                 copyFromMonth, month, form, txStore, catStore, envVars, viewVars>>

----------------------------------------------------------------------------
(* saveBudget, lines 437-458. *)

\* supabase upsert without onConflict resolves conflicts on the primary key
\* id; the payload carries no id, so the row is inserted under a fresh one
\* and the table's unique (user_id, month, category) decides.
UpsertBudgetFails(store, row) == BudgetsUniqueViolation(store, {row})
UpsertBudget(store, row) == store \cup {row}

StartSaveBudget(s, name) ==
  LET raw == IF name \in DOMAIN budgetDrafts THEN budgetDrafts[name] ELSE Undefined
      amountValue == NumberH(raw)
  IN
  /\ CanStart(s)
  /\ Includes(categories, name)
  /\ raw.t \notin {"empty", "undefined"}
  /\ IF IsNaN(raw) \/ amountValue < 0
     THEN /\ status' = St("budget must be a number >= 0", "")
          /\ UNCHANGED <<loading, tasks>>
     ELSE /\ loading' = TRUE
          /\ tasks' = [tasks EXCEPT ![s] =
               [Issue(Idle) EXCEPT !.kind = "saveBudget", !.pc = "sb_upsert",
                            !.n = name, !.m = month, !.amt = FloorH(amountValue)]]
          /\ UNCHANGED status
  /\ UNCHANGED <<session, transactions, categories, budgets, budgetDrafts,
                 copyFromMonth, month, form, storeVars, envVars, viewVars>>

SbUpsert(s) ==
  LET t   == tasks[s]
      row == BRow(session, t.m, t.n, t.amt)
  IN
  /\ t.pc = "sb_upsert"
  /\ ~Blocked
  /\ IF ~netOk
     THEN /\ Abort(s, St("budget save error", "network"), FALSE)
          /\ UNCHANGED budStore
     ELSE IF UpsertBudgetFails(budStore, row)
     THEN /\ Abort(s, St("budget save error", "duplicate key"), FALSE)
          /\ UNCHANGED budStore
     ELSE /\ budStore' = UpsertBudget(budStore, row)
          /\ tasks' = [tasks EXCEPT ![s] = [Issue(t) EXCEPT !.pc = "lb_select"]]
          /\ UNCHANGED <<status, loading>>
  /\ UNCHANGED <<session, transactions, categories, budgets, budgetDrafts,
                 copyFromMonth, month, form, txStore, catStore, envVars, viewVars>>

----------------------------------------------------------------------------
(* copyBudgetsFromMonth, lines 460-505. *)

StartCopyBudgets(s, accept) ==
  /\ CanStart(s)
  /\ IF copyFromMonth = NoMonth \/ copyFromMonth = month
     THEN /\ status' = St("choose the month to copy from", "")
          /\ UNCHANGED <<loading, tasks>>
     ELSE IF ~accept
     THEN UNCHANGED <<status, loading, tasks>>
     ELSE /\ loading' = TRUE
          /\ tasks' = [tasks EXCEPT ![s] =
               [Issue(Idle) EXCEPT !.kind = "copyBudgets", !.pc = "cp_select",
                            !.m = month, !.m2 = copyFromMonth]]
          /\ UNCHANGED status
  /\ UNCHANGED <<session, transactions, categories, budgets, budgetDrafts,
                 copyFromMonth, month, form, storeVars, envVars, viewVars>>

\* lines 467-485
CpSelect(s) ==
  LET t    == tasks[s]
      data == SelectBudgets(budStore, session, t.m2)
  IN
  /\ t.pc = "cp_select"
  /\ ~Blocked
  /\ IF ~netOk
     THEN Abort(s, St("budget load error", "network"), FALSE)
     ELSE IF data = {}
     THEN Abort(s, St("no budget in the source month", ""), FALSE)
     ELSE /\ tasks' = [tasks EXCEPT ![s] =
               [Issue(t) EXCEPT !.pc = "cp_delete", !.rows = data]]
          /\ UNCHANGED <<status, loading>>
  /\ UNCHANGED <<session, transactions, categories, budgets, budgetDrafts,
                 copyFromMonth, month, form, storeVars, envVars, viewVars>>

DeleteBudgetsOfMonth(store, u, m) ==
  {r \in store : ~(r.user_id = u /\ r.month = m)}

\* lines 481-497
CpDelete(s) ==
  LET t == tasks[s] IN
  /\ t.pc = "cp_delete"
  /\ ~Blocked
  /\ IF ~netOk
     THEN /\ Abort(s, St("budget delete error", "network"), FALSE)
          /\ UNCHANGED budStore
     ELSE /\ budStore' = DeleteBudgetsOfMonth(budStore, session, t.m)
          /\ tasks' = [tasks EXCEPT ![s] =
               [Issue(t) EXCEPT !.pc = "cp_insert",
                         !.rows = Retarget(t.rows, session, t.m)]]
          /\ UNCHANGED <<status, loading>>
  /\ UNCHANGED <<session, transactions, categories, budgets, budgetDrafts,
                 copyFromMonth, month, form, txStore, catStore, envVars, viewVars>>

\* lines 497-504
CpInsert(s) ==
  LET t == tasks[s] IN
  /\ t.pc = "cp_insert"
  /\ ~Blocked
  /\ IF ~netOk
     THEN /\ Abort(s, St("budget copy error", "network"), FALSE)
          /\ UNCHANGED budStore
     ELSE IF BudgetsUniqueViolation(budStore, t.rows)
     THEN /\ Abort(s, St("budget copy error", "duplicate key"), FALSE)
          /\ UNCHANGED budStore
     ELSE /\ budStore' = budStore \cup t.rows
          /\ tasks' = [tasks EXCEPT ![s] = [Issue(t) EXCEPT !.pc = "lb_select", !.rows = {}]]
          /\ UNCHANGED <<status, loading>>
  /\ UNCHANGED <<session, transactions, categories, budgets, budgetDrafts,
                 copyFromMonth, month, form, txStore, catStore, envVars, viewVars>>

----------------------------------------------------------------------------
(* CSV files, as parseCsv hands them to handleImport: the first cell of   *)
(* the header row and the body rows.  Labels are romanised: hizuke (date), *)
(* kategori (category), tsuki (month), shunyu (income), shishutsu          *)
(* (expense), shohi / rohi / toshi (consumption / waste / investment).     *)
HeaderOf(kind) ==
  CASE kind = "transactions" -> "hizuke"
    [] kind = "categories"   -> "kategori"
    [] kind = "budgets"      -> "tsuki"

File(header, body) == [header |-> header, body |-> body]
TxCells(date, typeLabel, purposeLabel, category, amount) ==
  [date |-> date, typeLabel |-> typeLabel, purposeLabel |-> purposeLabel,
   category |-> category, note |-> "", amount |-> amount]
BudCells(monthValue, category, amount) ==
  [month |-> monthValue, category |-> category, amount |-> amount]

FormDate == "2024-02-10"

BudgetFiles ==
  { File("tsuki", <<>>),
    File("hizuke", <<BudCells(<<2024, 2>>, "shokuhi", Num(2))>>),
    File("tsuki", <<BudCells(<<2024, 2>>, "shokuhi", Num(-4))>>),
    File("tsuki", <<BudCells(<<2024, 2>>, "", Num(2)),
                    BudCells(NoMonth, "sonota", Num(2)),
                    BudCells(<<2024, 1>>, "sonota", NaNText)>>),
    File("tsuki", <<BudCells(<<2024, 1>>, "sonota", Num(2)),
                    BudCells(<<2024, 1>>, "sonota", Num(4)),
                    BudCells(<<2024, 2>>, "sonota", EmptyText)>>) }

\* lines 673-685: rows without month, category or number are dropped
BudgetPayload(body, u) ==
  { BRow(u, body[i].month, body[i].category, AbsH(NumberH(body[i].amount))) :
      i \in { j \in 1..Len(body) :
                /\ body[j].month # NoMonth
                /\ body[j].category # ""
                /\ ~IsNaN(body[j].amount) } }

\* handleImport up to its insert, lines 591-691, for the budgets kind
StartImportBudgets(s, file) ==
  LET payload == BudgetPayload(file.body, session) IN
  /\ CanStart(s)
  /\ ~loading
  /\ IF Len(file.body) = 0
     THEN /\ status' = St("no data in the CSV", "")
          /\ UNCHANGED tasks
     ELSE IF file.header # HeaderOf("budgets")
     THEN /\ status' = St("not a budget CSV", "")
          /\ UNCHANGED tasks
     ELSE IF payload = {}
     THEN /\ status' = St("no budget to import", "")
          /\ UNCHANGED tasks
     ELSE /\ tasks' = [tasks EXCEPT ![s] =
               [Issue(Idle) EXCEPT !.kind = "importBudgets", !.pc = "im_insert_budgets",
                            !.m = month, !.rows = payload,
                            !.header = file.header, !.body = file.body]]
          /\ UNCHANGED status
  /\ loading' = (tasks' # tasks)
  /\ UNCHANGED <<session, transactions, categories, budgets, budgetDrafts,
                 copyFromMonth, month, form, storeVars, envVars, viewVars>>

\* lines 691-702
ImInsertBudgets(s) ==
  LET t == tasks[s] IN
  /\ t.pc = "im_insert_budgets"
  /\ ~Blocked
  /\ IF ~netOk
     THEN /\ Abort(s, St("budget import error", "network"), FALSE)
          /\ UNCHANGED budStore
     ELSE IF \E r \in t.rows : ~FitsInteger(r)
     THEN /\ Abort(s, St("budget import error", "invalid integer"), FALSE)
          /\ UNCHANGED budStore
     ELSE IF BudgetsUniqueViolation(budStore, t.rows)
     THEN /\ Abort(s, St("budget import error", "duplicate key"), FALSE)
          /\ UNCHANGED budStore
     ELSE /\ budStore' = budStore \cup {AsStored(r) : r \in t.rows}
          /\ tasks' = [tasks EXCEPT ![s] = [Issue(t) EXCEPT !.pc = "lb_select", !.rows = {}]]
          /\ UNCHANGED <<status, loading>>
  /\ UNCHANGED <<session, transactions, categories, budgets, budgetDrafts,
                 copyFromMonth, month, form, txStore, catStore, envVars, viewVars>>

----------------------------------------------------------------------------
(* The transactions and categories tables. *)
TRow(u, date, amount, type, purpose, category) ==
  [user_id |-> u, date |-> date, amount |-> amount, type |-> type,
   purpose |-> purpose, category |-> category, note |-> ""]

Noted(row, note) == [row EXCEPT !.note = note]
CatRow(u, name) == [user_id |-> u, name |-> name]

BagOf(row) == SetToBag({row})
BagFilter(b, Keep(_)) ==
  LET dom == {r \in BagToSet(b) : Keep(r)} IN [r \in dom |-> b[r]]
\* the bag of F(r) for the rows r of b
BagMap(b, F(_)) ==
  LET img == {F(r) : r \in BagToSet(b)}
      Count(x) == LET src == {r \in BagToSet(b) : F(r) = x}
                      Sum[S \in SUBSET src] ==
                        IF S = {} THEN 0
                        ELSE LET r == CHOOSE r \in S : TRUE IN b[r] + Sum[S \ {r}]
                  IN  Sum[src]
  IN  [x \in img |-> Count(x)]

\* row level security: a select sees the rows of auth.uid()
SelectTransactions(store, u) == BagFilter(store, LAMBDA r : r.user_id = u)
CountByCategory(store, u, name) ==
  BagCardinality(BagFilter(store, LAMBDA r : r.user_id = u /\ r.category = name))
\* update transactions set category = new where user_id = u and category = old
RenameInTransactions(store, u, old, new) ==
  BagMap(store, LAMBDA r : IF r.user_id = u /\ r.category = old
                           THEN [r EXCEPT !.category = new] ELSE r)
DeleteTransaction(store, row) ==
  IF BagIn(row, store) THEN store (-) BagOf(row) ELSE store

SelectCategories(store, u) ==
  LET Pick[i \in 0..Len(store)] ==
        IF i = 0 THEN <<>>
        ELSE IF store[i].user_id = u THEN Append(Pick[i - 1], store[i].name)
        ELSE Pick[i - 1]
  IN  Pick[Len(store)]
\* unique (user_id, name)
CategoriesUniqueViolation(store, u, names) ==
  \/ \E i \in 1..Len(names) : Includes(store, CatRow(u, names[i]))
  \/ \E i, j \in 1..Len(names) : i # j /\ names[i] = names[j]
InsertCategories(store, u, names) ==
  store \o [i \in 1..Len(names) |-> CatRow(u, names[i])]
RenameCategory(store, u, old, new) ==
  [i \in 1..Len(store) |->
     IF store[i] = CatRow(u, old) THEN CatRow(u, new) ELSE store[i]]
DeleteCategory(store, u, name) ==
  SelectSeq(store, LAMBDA r : r # CatRow(u, name))
DeleteBudgetsOfCategory(store, u, name) ==
  {r \in store : ~(r.user_id = u /\ r.category = name)}

----------------------------------------------------------------------------
(* The transaction form and the effects of lines 705-718 that correct it  *)
(* after every render in which its type, its category or the category     *)
(* list changed.                                                           *)
FirstOr(q, d) == IF Len(q) > 0 THEN q[1] ELSE d

CorrectForm(fm, cats) ==
  IF fm.type = "income" /\ ~Includes(incomeCategories, fm.category)
  THEN [fm EXCEPT !.category = incomeCategories[1], !.purpose = "consumption"]
  ELSE IF fm.type = "expense" /\ ~Includes(cats, fm.category)
  THEN [fm EXCEPT !.category = FirstOr(cats, defaultCategories[1])]
  ELSE fm

\* lines 906-972: the inputs of the form
FormOptions == IF form.type = "income" THEN incomeCategories ELSE categories

SetForm(field, value) ==
  /\ session # NoSession
  /\ ~Blocked
  /\ CASE field = "amount"   -> TRUE
       [] field = "note"     -> TRUE
       [] field = "type"     -> value \in types
       [] field = "purpose"  -> form.type = "expense" /\ value \in purposes
       [] field = "category" -> Includes(FormOptions, value)
  /\ form' = CorrectForm([form EXCEPT ![field] = value], categories)
  /\ form' # form
  /\ UNCHANGED <<session, status, loading, transactions, categories, budgets,
                 budgetDrafts, copyFromMonth, month, storeVars, envVars, viewVars, tasks>>

----------------------------------------------------------------------------
(* loadTransactions (lines 156-171) and loadCategories (lines 238-278),   *)
(* as the effect of lines 144-149 starts them and as the call the other    *)
(* handlers end with.                                                      *)
StartLoadTransactions(s) ==
  /\ CanStart(s)
  /\ loading' = TRUE
  /\ tasks' = [tasks EXCEPT ![s] =
       [Issue(Idle) EXCEPT !.kind = "loadTransactions", !.pc = "lt_select"]]
  /\ UNCHANGED <<session, status, transactions, categories, budgets, budgetDrafts,
                 copyFromMonth, month, form, storeVars, envVars, viewVars>>

LtSelect(s) ==
  /\ tasks[s].pc = "lt_select"
  /\ ~Blocked
  /\ IF ~netOk
     THEN /\ Finish(s, St("load error", "network"), FALSE)
          /\ UNCHANGED transactions
     ELSE /\ transactions' = SelectTransactions(txStore, tasks[s].token)
          /\ Finish(s, NoStatus, FALSE)
  /\ UNCHANGED <<session, categories, budgets, budgetDrafts, copyFromMonth, month,
                 form, storeVars, envVars, viewVars>>

StartLoadCategories(s) ==
  /\ CanStart(s)
  /\ loading' = TRUE
  /\ tasks' = [tasks EXCEPT ![s] =
       [Issue(Idle) EXCEPT !.kind = "loadCategories", !.pc = "lc_select",
                    !.fc = form.category]]
  /\ UNCHANGED <<session, status, transactions, categories, budgets, budgetDrafts,
                 copyFromMonth, month, form, storeVars, envVars, viewVars>>

\* the effect with the purpose reset for the type income alone
CorrectFilters_IncomeOnly(f, cats) ==
  LET one == IF f.type = "income" /\ f.purpose # "all"
             THEN [f EXCEPT !.purpose = "all"] ELSE f
  IN  IF \/ f.type = "income" /\ f.category # "all"
               /\ ~Includes(incomeCategories, f.category)
         \/ f.type = "expense" /\ f.category # "all" /\ ~Includes(cats, f.category)
      THEN [one EXCEPT !.category = "all"]
      ELSE one
\* the effect of lines 720-730, run to its end
CorrectFilters(f, cats) ==
  LET one == IF f.type # "expense" /\ f.purpose # "all"
             THEN [f EXCEPT !.purpose = "all"] ELSE f
  IN  IF \/ f.type = "income" /\ f.category # "all"
               /\ ~Includes(incomeCategories, f.category)
         \/ f.type = "expense" /\ f.category # "all" /\ ~Includes(cats, f.category)
      THEN [one EXCEPT !.category = "all"]
      ELSE one

\* the part of the caller that runs after loadCategories, on the form
EpForm(t, fm) ==
  CASE t.kind = "renameCategory" /\ t.fc = t.n -> [fm EXCEPT !.category = t.n2]
    [] t.kind = "deleteCategory" /\ t.fc = t.n -> [fm EXCEPT !.category = defaultCategories[1]]
    [] OTHER -> fm

\* lines 240-257 and 272-277
LcSelect(s) ==
  LET t == tasks[s]
      nextCategories == SelectCategories(catStore, t.token)
  IN
  /\ t.pc = "lc_select"
  /\ ~Blocked
  /\ IF ~netOk
     THEN /\ categories' = defaultCategories
          /\ form' = CorrectForm(EpForm(t, form), categories')
          /\ Finish(s, St("category load error", "network"), FALSE)
     ELSE IF nextCategories = <<>>
     THEN /\ tasks' = [tasks EXCEPT ![s] = [Issue(t) EXCEPT !.pc = "lc_seed"]]
          /\ UNCHANGED <<categories, form, status, loading>>
     ELSE /\ categories' = nextCategories
          /\ form' = CorrectForm(
               EpForm(t, IF Includes(nextCategories, t.fc) THEN form
                         ELSE [form EXCEPT !.category = nextCategories[1]]),
               categories')
          /\ Finish(s, status, FALSE)
  \* lines 720-730: the effect on the filters runs when categories changed
  /\ filters' = CorrectFilters(filters, categories')
  /\ UNCHANGED <<session, transactions, budgets, budgetDrafts, copyFromMonth, month,
                 storeVars, envVars, downloads>>

\* lines 257-262: the insert of the default categories is answered
LcSeed(s) ==
  LET t == tasks[s] IN
  /\ t.pc = "lc_seed"
  /\ ~Blocked
  /\ IF \/ ~netOk
        \/ t.token # ClosureUser
        \/ CategoriesUniqueViolation(catStore, ClosureUser, defaultCategories)
     THEN /\ categories' = defaultCategories
          /\ form' = CorrectForm(EpForm(t, form), categories')
          /\ Finish(s, St("category seed error",
                          IF ~netOk THEN "network"
                          ELSE IF t.token # ClosureUser THEN "row-level security"
                          ELSE "duplicate key"), FALSE)
          /\ UNCHANGED catStore
     ELSE /\ catStore' = InsertCategories(catStore, ClosureUser, defaultCategories)
          /\ tasks' = [tasks EXCEPT ![s] = [Issue(t) EXCEPT !.pc = "lc_reselect"]]
          /\ UNCHANGED <<categories, form, status, loading>>
  \* lines 720-730: the effect on the filters runs when categories changed
  /\ filters' = CorrectFilters(filters, categories')
  /\ UNCHANGED <<session, transactions, budgets, budgetDrafts, copyFromMonth, month,
                 txStore, budStore, envVars, downloads>>

\* lines 262-269: an error of this select is not looked at
LcReselect(s) ==
  LET t == tasks[s]
      seeded == IF netOk THEN SelectCategories(catStore, t.token) ELSE <<>>
  IN
  /\ t.pc = "lc_reselect"
  /\ ~Blocked
  /\ categories' = seeded
  /\ form' = CorrectForm(EpForm(t, form), categories')
  /\ Finish(s, status, FALSE)
  \* lines 720-730: the effect on the filters runs when categories changed
  /\ filters' = CorrectFilters(filters, categories')
  /\ UNCHANGED <<session, transactions, budgets, budgetDrafts, copyFromMonth, month,
                 storeVars, envVars, downloads>>

----------------------------------------------------------------------------
(* handleSubmit (lines 195-224) and handleDelete (lines 226-236). *)
StartSubmit(s) ==
  LET amountValue == NumberH(form.amount) IN
  /\ CanStart(s)
  /\ ~loading
  /\ form.amount.t # "empty"
  /\ IF IsNaN(form.amount)
     THEN /\ status' = St("the amount is not valid", "")
          /\ UNCHANGED <<loading, tasks>>
     ELSE /\ loading' = TRUE
          /\ tasks' = [tasks EXCEPT ![s] =
               [Issue(Idle) EXCEPT !.kind = "submit", !.pc = "hs_insert",
                  !.amt = amountValue,
                  !.txs = BagOf(Noted(TRow(session, FormDate, AbsH(amountValue),
                                           form.type, form.purpose, form.category),
                                      Str(Trim(Chars(form.note)))))]]
          /\ UNCHANGED status
  /\ UNCHANGED <<session, transactions, categories, budgets, budgetDrafts,
                 copyFromMonth, month, form, storeVars, envVars, viewVars>>

\* lines 216-221, and line 157 of the loadTransactions it calls
HsInsert(s) ==
  LET t == tasks[s] IN
  /\ t.pc = "hs_insert"
  /\ ~Blocked
  /\ IF ~netOk
     THEN /\ Abort(s, St("save error", "network"), FALSE)
          /\ UNCHANGED <<txStore, form>>
     ELSE IF \E r \in BagToSet(t.txs) : ~FitsInteger(r)
     THEN /\ Abort(s, St("save error", "invalid integer"), FALSE)
          /\ UNCHANGED <<txStore, form>>
     ELSE /\ txStore' = txStore (+) BagMap(t.txs, AsStored)
          /\ form' = [form EXCEPT !.amount = EmptyText, !.note = ""]
          /\ tasks' = [tasks EXCEPT ![s] = [Issue(t) EXCEPT !.pc = "lt_select", !.txs = EmptyBag]]
          /\ loading' = TRUE
          /\ UNCHANGED status
  /\ UNCHANGED <<session, transactions, categories, budgets, budgetDrafts,
                 copyFromMonth, month, catStore, budStore, envVars, viewVars>>

\* a declined confirm (line 227) changes nothing and is left out
StartDelete(s, row) ==
  /\ CanStart(s)
  /\ BagIn(row, transactions)
  /\ loading' = TRUE
  /\ tasks' = [tasks EXCEPT ![s] =
       [Issue(Idle) EXCEPT !.kind = "delete", !.pc = "hd_delete", !.txs = BagOf(row)]]
  /\ UNCHANGED <<session, status, transactions, categories, budgets, budgetDrafts,
                 copyFromMonth, month, form, storeVars, envVars, viewVars>>

HdDelete(s) ==
  LET t == tasks[s]
      row == CHOOSE r \in BagToSet(t.txs) : TRUE
  IN
  /\ t.pc = "hd_delete"
  /\ ~Blocked
  /\ IF ~netOk
     THEN /\ Abort(s, St("delete error", "network"), FALSE)
          /\ UNCHANGED txStore
     ELSE /\ txStore' = DeleteTransaction(txStore, row)
          /\ tasks' = [tasks EXCEPT ![s] = [Issue(t) EXCEPT !.pc = "lt_select", !.txs = EmptyBag]]
          /\ loading' = TRUE
          /\ UNCHANGED status
  /\ UNCHANGED <<session, transactions, categories, budgets, budgetDrafts,
                 copyFromMonth, month, form, catStore, budStore, envVars, viewVars>>

----------------------------------------------------------------------------
(* handleAddCategory (lines 280-296), handleRenameCategory (lines         *)
(* 308-338) and handleDeleteCategory (lines 340-378).                      *)
StartAddCategory(s, name) ==
  /\ CanStart(s)
  /\ ~loading
  /\ name # ""
  /\ loading' = TRUE
  /\ tasks' = [tasks EXCEPT ![s] =
       [Issue(Idle) EXCEPT !.kind = "addCategory", !.pc = "ac_insert", !.n = name,
                    !.fc = form.category]]
  /\ UNCHANGED <<session, status, transactions, categories, budgets, budgetDrafts,
                 copyFromMonth, month, form, storeVars, envVars, viewVars>>

AcInsert(s) ==
  LET t == tasks[s] IN
  /\ t.pc = "ac_insert"
  /\ ~Blocked
  /\ IF ~netOk \/ CategoriesUniqueViolation(catStore, session, <<t.n>>)
     THEN /\ Abort(s, St("category add error",
                         IF netOk THEN "duplicate key" ELSE "network"), FALSE)
          /\ UNCHANGED catStore
     ELSE /\ catStore' = InsertCategories(catStore, session, <<t.n>>)
          /\ tasks' = [tasks EXCEPT ![s] = [Issue(t) EXCEPT !.pc = "lc_select"]]
          /\ loading' = TRUE
          /\ UNCHANGED status
  /\ UNCHANGED <<session, transactions, categories, budgets, budgetDrafts,
                 copyFromMonth, month, form, txStore, budStore, envVars, viewVars>>

\* the row being edited is one of the list; nextName is the trimmed input
StartRenameCategory(s, oldName, nextName) ==
  /\ CanStart(s)
  /\ Includes(categories, oldName)
  /\ nextName # ""
  /\ nextName # oldName
  /\ loading' = TRUE
  /\ tasks' = [tasks EXCEPT ![s] =
       [Issue(Idle) EXCEPT !.kind = "renameCategory", !.pc = "rc_update",
                    !.n = oldName, !.n2 = nextName, !.fc = form.category]]
  /\ UNCHANGED <<session, status, transactions, categories, budgets, budgetDrafts,
                 copyFromMonth, month, form, storeVars, envVars, viewVars>>

\* lines 315-330
RcUpdate(s) ==
  LET t == tasks[s]
      hit == Includes(catStore, CatRow(session, t.n))
  IN
  /\ t.pc = "rc_update"
  /\ ~Blocked
  /\ IF ~netOk \/ (hit /\ Includes(catStore, CatRow(session, t.n2)))
     THEN /\ Abort(s, St("category update error",
                         IF netOk THEN "duplicate key" ELSE "network"), FALSE)
          /\ UNCHANGED catStore
     ELSE /\ catStore' = RenameCategory(catStore, session, t.n, t.n2)
          /\ tasks' = [tasks EXCEPT ![s] = [Issue(t) EXCEPT !.pc = "rc_update_tx"]]
          /\ UNCHANGED <<status, loading>>
  /\ UNCHANGED <<session, transactions, categories, budgets, budgetDrafts,
                 copyFromMonth, month, form, txStore, budStore, envVars, viewVars>>

\* lines 326-332: the result of the update is not looked at
RcUpdateTx(s) ==
  LET t == tasks[s] IN
  /\ t.pc = "rc_update_tx"
  /\ ~Blocked
  /\ txStore' = IF netOk THEN RenameInTransactions(txStore, session, t.n, t.n2)
                ELSE txStore
  /\ tasks' = [tasks EXCEPT ![s] = [Issue(t) EXCEPT !.pc = "lc_select"]]
  /\ loading' = TRUE
  /\ UNCHANGED <<session, status, transactions, categories, budgets, budgetDrafts,
                 copyFromMonth, month, form, catStore, budStore, envVars, viewVars>>

StartDeleteCategory(s, name) ==
  /\ CanStart(s)
  /\ Includes(categories, name)
  /\ tasks' = [tasks EXCEPT ![s] =
       [Issue(Idle) EXCEPT !.kind = "deleteCategory", !.pc = "dc_count", !.n = name,
                    !.fc = form.category]]
  /\ UNCHANGED <<memVars, storeVars, envVars, viewVars>>

\* lines 341-363: the count is answered; alert or confirm; the delete is sent
DcCount(s, accept) ==
  LET t == tasks[s]
      count == CountByCategory(txStore, session, t.n)
  IN
  /\ t.pc = "dc_count"
  /\ ~Blocked
  /\ IF ~netOk
     THEN Abort(s, St("category check error", "network"), loading)
     ELSE IF count > 0 \/ ~accept
     THEN Abort(s, status, loading)
     ELSE /\ tasks' = [tasks EXCEPT ![s] = [Issue(t) EXCEPT !.pc = "dc_delete"]]
          /\ loading' = TRUE
          /\ UNCHANGED status
  /\ UNCHANGED <<session, transactions, categories, budgets, budgetDrafts,
                 copyFromMonth, month, form, storeVars, envVars, viewVars>>

\* lines 359-371
DcDelete(s) ==
  LET t == tasks[s] IN
  /\ t.pc = "dc_delete"
  /\ ~Blocked
  /\ IF ~netOk
     THEN /\ Abort(s, St("category delete error", "network"), FALSE)
          /\ UNCHANGED catStore
     ELSE /\ catStore' = DeleteCategory(catStore, session, t.n)
          /\ tasks' = [tasks EXCEPT ![s] = [Issue(t) EXCEPT !.pc = "dc_delete_budgets"]]
          /\ UNCHANGED <<status, loading>>
  /\ UNCHANGED <<session, transactions, categories, budgets, budgetDrafts,
                 copyFromMonth, month, form, txStore, budStore, envVars, viewVars>>

\* lines 367-372: the result of the delete is not looked at
DcDeleteBudgets(s) ==
  LET t == tasks[s] IN
  /\ t.pc = "dc_delete_budgets"
  /\ ~Blocked
  /\ budStore' = IF netOk THEN DeleteBudgetsOfCategory(budStore, session, t.n)
                 ELSE budStore
  /\ tasks' = [tasks EXCEPT ![s] = [Issue(t) EXCEPT !.pc = "lc_select"]]
  /\ loading' = TRUE
  /\ UNCHANGED <<session, status, transactions, categories, budgets, budgetDrafts,
                 copyFromMonth, month, form, txStore, catStore, envVars, viewVars>>

----------------------------------------------------------------------------
(* handleImport for the transactions and the categories kinds. *)
PurposeLabel(p) ==
  CASE p = "consumption" -> "shohi" [] p = "waste" -> "rohi" [] p = "investment" -> "toshi"
purposeFromLabel(label) ==
  IF \E p \in purposes : PurposeLabel(p) = label
  THEN CHOOSE p \in purposes : PurposeLabel(p) = label
  ELSE "consumption"

\* lines 612-627: one body row; "" is null
TxFromCells(c, u) ==
  LET type == IF c.typeLabel = "shunyu" THEN "income" ELSE "expense"
      purpose == IF type = "income" THEN "consumption" ELSE purposeFromLabel(c.purposeLabel)
  IN  Noted(TRow(u, c.date, AbsH(NumberH(c.amount)), type, purpose,
                 IF c.category # "" THEN c.category
                 ELSE IF type = "income" THEN incomeCategories[1]
                 ELSE defaultCategories[1]),
            c.note)
TxKept(c) == c.date # "" /\ ~IsNaN(c.amount)

TransactionPayload(body, u) ==
  LET Build[i \in 0..Len(body)] ==
        IF i = 0 THEN EmptyBag
        ELSE IF TxKept(body[i]) THEN Build[i - 1] (+) BagOf(TxFromCells(body[i], u))
        ELSE Build[i - 1]
  IN  Build[Len(body)]

\* lines 649-652
CategoryPayload(body) == SelectSeq(body, LAMBDA name : name # "")

StartImportTransactions(s, file) ==
  LET payload == TransactionPayload(file.body, session) IN
  /\ CanStart(s)
  /\ ~loading
  /\ IF Len(file.body) = 0
     THEN /\ status' = St("no data in the CSV", "")
          /\ UNCHANGED tasks
     ELSE IF file.header # HeaderOf("transactions")
     THEN /\ status' = St("not a transaction CSV", "")
          /\ UNCHANGED tasks
     ELSE IF payload = EmptyBag
     THEN /\ status' = St("no transaction to import", "")
          /\ UNCHANGED tasks
     ELSE /\ tasks' = [tasks EXCEPT ![s] =
               [Issue(Idle) EXCEPT !.kind = "importTransactions", !.pc = "im_insert_tx",
                            !.txs = payload,
                            !.header = file.header, !.body = file.body]]
          /\ UNCHANGED status
  /\ loading' = (tasks' # tasks)
  /\ UNCHANGED <<session, transactions, categories, budgets, budgetDrafts,
                 copyFromMonth, month, form, storeVars, envVars, viewVars>>

ImInsertTx(s) ==
  LET t == tasks[s] IN
  /\ t.pc = "im_insert_tx"
  /\ ~Blocked
  /\ IF ~netOk
     THEN /\ Abort(s, St("transaction import error", "network"), FALSE)
          /\ UNCHANGED txStore
     ELSE IF \E r \in BagToSet(t.txs) : ~FitsInteger(r)
     THEN /\ Abort(s, St("transaction import error", "invalid integer"), FALSE)
          /\ UNCHANGED txStore
     ELSE /\ txStore' = txStore (+) BagMap(t.txs, AsStored)
          /\ tasks' = [tasks EXCEPT ![s] = [Issue(t) EXCEPT !.pc = "lt_select", !.txs = EmptyBag]]
          /\ loading' = TRUE
          /\ UNCHANGED status
  /\ UNCHANGED <<session, transactions, categories, budgets, budgetDrafts,
                 copyFromMonth, month, form, catStore, budStore, envVars, viewVars>>

StartImportCategories(s, file) ==
  LET payload == CategoryPayload(file.body) IN
  /\ CanStart(s)
  /\ ~loading
  /\ IF Len(file.body) = 0
     THEN /\ status' = St("no data in the CSV", "")
          /\ UNCHANGED tasks
     ELSE IF file.header # HeaderOf("categories")
     THEN /\ status' = St("not a category CSV", "")
          /\ UNCHANGED tasks
     ELSE IF payload = <<>>
     THEN /\ status' = St("no category to import", "")
          /\ UNCHANGED tasks
     ELSE /\ tasks' = [tasks EXCEPT ![s] =
               [Issue(Idle) EXCEPT !.kind = "importCategories", !.pc = "im_insert_cat",
                            !.names = payload, !.fc = form.category,
                            !.header = file.header, !.body = file.body]]
          /\ UNCHANGED status
  /\ loading' = (tasks' # tasks)
  /\ UNCHANGED <<session, transactions, categories, budgets, budgetDrafts,
                 copyFromMonth, month, form, storeVars, envVars, viewVars>>

ImInsertCat(s) ==
  LET t == tasks[s] IN
  /\ t.pc = "im_insert_cat"
  /\ ~Blocked
  /\ IF ~netOk \/ CategoriesUniqueViolation(catStore, session, t.names)
     THEN /\ Abort(s, St("category import error",
                         IF netOk THEN "duplicate key" ELSE "network"), FALSE)
          /\ UNCHANGED catStore
     ELSE /\ catStore' = InsertCategories(catStore, session, t.names)
          /\ tasks' = [tasks EXCEPT ![s] = [Issue(t) EXCEPT !.pc = "lc_select", !.names = <<>>]]
          /\ loading' = TRUE
          /\ UNCHANGED status
  /\ UNCHANGED <<session, transactions, categories, budgets, budgetDrafts,
                 copyFromMonth, month, form, txStore, budStore, envVars, viewVars>>

----------------------------------------------------------------------------
(* The state after construction, with a session, and the store as an      *)
(* earlier visit may have left it.                                         *)
User == "A"
\* lines 107-114
NoFilters == [type |-> "all", purpose |-> "all", category |-> "all",
              query |-> "", dateFrom |-> "", dateTo |-> ""]
NoFile == [filename |-> "", items |-> <<>>, text |-> <<>>]
NoMap == [c \in {} |-> 0]

InitBudStores ==
  { {},
    {BRow(User, <<2024, 1>>, "shokuhi", 1)},
    {BRow(User, <<2023, 12>>, "sonota", 2), BRow(User, <<2024, 1>>, "shokuhi", 1)} }

InitTxStores ==
  { EmptyBag,
    BagOf(TRow(User, FormDate, 5, "expense", "waste", "shokuhi")) }

Fresh ==
  /\ session = User
  /\ status = NoStatus
  /\ loading = FALSE
  /\ transactions = EmptyBag
  /\ categories = defaultCategories
  /\ budgets = NoMap
  /\ budgetDrafts = NoMap
  /\ copyFromMonth = <<2024, 1>>
  /\ month = <<2024, 2>>
  /\ form = [amount |-> EmptyText, type |-> "expense", purpose |-> "consumption",
             category |-> defaultCategories[1], note |-> ""]
  /\ catStore = <<CatRow(User, "shokuhi"), CatRow(User, "sonota")>>
  /\ flags = [m \in Months |-> ""]
  /\ prompts = [m \in Months |-> 0]
  /\ tz \in TzOffsets
  /\ netOk = TRUE
  /\ tasks = [s \in Slots |-> Idle]
  /\ filters = NoFilters
  /\ downloads = NoFile

Init ==
  /\ Fresh
  /\ txStore \in InitTxStores
  /\ budStore \in InitBudStores

----------------------------------------------------------------------------
(* Rollover: the loads the effects start, month changes, and the network. *)
RolloverSteps(s) ==
  \/ LbSelect(s)
  \/ MacSelect(s)
  \/ \E accept \in BOOLEAN : MacConfirm(s, accept)
  \/ MacInsert(s)

NextRollover ==
  \/ NetFlip
  \/ \E s \in Slots :
       \/ FirstFree(s) /\ StartLoadBudgets(s)
       \/ \E mo \in Months : FirstFree(s) /\ SetMonth(s, mo)
       \/ RolloverSteps(s)

SpecRollover == Init /\ [][NextRollover]_vars

\* slot s takes a step at pc
StepsAt(s, pc) == tasks[s].pc = pc /\ tasks'[s] # tasks[s]

HasBudgets(m) == SelectBudgets(budStore, session, m) # {}

(* C1: when the read of maybeAutoCopyBudgets is answered for a target     *)
(* month that has no stored budget and no rollover flag, while the         *)
(* calendar month before it has budgets, exactly one copy prompt opens and *)
(* the flag becomes "prompted" (the answer is not yet given); and once the *)
(* flag of a month is set and no load that passed the flag check is still  *)
(* in flight, no load of that month opens a prompt.                        *)
C1_FirstLoadPromptsOnce ==
  [][\A s \in Slots :
       LET m == tasks[s].m IN
       ( /\ StepsAt(s, "mac_select")
         /\ netOk
         /\ flags[m] = ""
         /\ ~HasBudgets(m)
         /\ HasBudgets(MonthBefore(m)) )
       => ( /\ prompts'[m] = prompts[m] + 1
            /\ flags'[m] = "prompted"
            /\ tasks'[s].pc = "mac_confirm" )]_vars

C1_LaterLoadsDoNotPrompt ==
  [][\A m \in Months :
       ( /\ flags[m] # ""
         /\ \A s \in Slots : ~(tasks[s].pc = "mac_select" /\ tasks[s].m = m) )
       => prompts'[m] = prompts[m]]_vars

C1_Rollover == C1_FirstLoadPromptsOnce /\ C1_LaterLoadsDoNotPrompt

----------------------------------------------------------------------------
(* Budget writes: a manual copy in slot 1, with a save of one budget row   *)
(* or a load in slot 2.                                                    *)
InitCopy ==
  /\ Init
  /\ tz = 9
  /\ txStore = EmptyBag
  /\ budStore = {BRow(User, <<2023, 12>>, "sonota", 2),
                 BRow(User, <<2024, 1>>, "shokuhi", 1)}

BudgetWriteSteps(s) ==
  \/ RolloverSteps(s)
  \/ SbUpsert(s)
  \/ CpSelect(s)
  \/ CpDelete(s)
  \/ CpInsert(s)

NextCopy ==
  \/ NetFlip
  \/ \E mo \in {NoMonth, <<2024, 1>>} : SetCopyFromMonth(mo)
  \/ \E value \in {Num(3), Num(4)} : handleBudgetChange("sonota", value)
  \/ \E accept \in BOOLEAN : StartCopyBudgets(1, accept)
  \/ StartSaveBudget(2, "sonota")
  \/ StartLoadBudgets(2)
  \/ \E s \in Slots : BudgetWriteSteps(s)

SpecCopy == InitCopy /\ [][NextCopy]_vars

\* the (category, amount) pairs the owner has stored for month m
Pairs(store, m) ==
  {<<r.category, r.amount>> : r \in SelectBudgets(store, session, m)}
OtherMonthsUnchanged(ms) ==
  \A r \in budStore \cup budStore' : r.month \notin ms => (r \in budStore <=> r \in budStore')
CopyInserted(s) == StepsAt(s, "cp_insert") /\ tasks'[s].pc = "lb_select"

(* C5: once the insert of a manual copy from X into M has succeeded, the   *)
(* stored budgets of M are exactly the (category, amount) pairs of X.      *)
C5_CopyIsExactReplace ==
  [][\A s \in Slots :
       CopyInserted(s) =>
         Pairs(budStore', tasks[s].m) = Pairs(budStore', tasks[s].m2)]_vars

(* What the copy does when nothing comes between its requests: the delete *)
(* leaves month M without a budget and every other month as it was; when   *)
(* the insert succeeds while M is still empty and X still holds the rows   *)
(* that were read, M's stored budgets become exactly the pairs of X, and X *)
(* and every other month are unchanged.                                    *)
CopyReplacesUndisturbed ==
  [][\A s \in Slots :
       LET t == tasks[s] IN
       /\ (StepsAt(s, "cp_delete") /\ tasks'[s].pc = "cp_insert")
            => ( /\ Pairs(budStore', t.m) = {}
                 /\ OtherMonthsUnchanged({t.m}) )
       /\ ( /\ CopyInserted(s)
            /\ Pairs(budStore, t.m) = {}
            /\ SelectBudgets(budStore, session, t.m2) # {}
            /\ Pairs(budStore, t.m2) = {<<r.category, r.amount>> : r \in t.rows} )
            => ( /\ Pairs(budStore', t.m) = Pairs(budStore, t.m2)
                 /\ OtherMonthsUnchanged({t.m}) )]_vars

\* a copy has replaced a month whose flag is set and which held a budget
\* (still shown in memory) that the source month does not have
CopyReplacedFlaggedMonth ==
  \E s \in Slots :
    /\ tasks[s].kind = "copyBudgets"
    /\ tasks[s].pc = "lb_select"
    /\ flags[tasks[s].m] # ""
    /\ Pairs(budStore, tasks[s].m) = Pairs(budStore, tasks[s].m2)
    /\ \E c \in DOMAIN budgets :
         c \notin {r.category : r \in SelectBudgets(budStore, session, tasks[s].m2)}

(* C6: no two stored budget rows share (owner, month, category); and when  *)
(* the upsert of saveBudget reaches the store for a key that already has a *)
(* row, that row's amount becomes the floor of the input, no row is added, *)
(* nothing fails and every other row is unchanged.                         *)
C6_UniqueKeys == \A p, q \in budStore : BKey(p) = BKey(q) => p = q

C6_SaveReplaces ==
  [][\A s \in Slots :
       LET row == BRow(session, tasks[s].m, tasks[s].n, tasks[s].amt) IN
       ( /\ StepsAt(s, "sb_upsert")
         /\ netOk
         /\ \E r \in budStore : BKey(r) = BKey(row) )
       => ( /\ budStore' = {r \in budStore : BKey(r) # BKey(row)} \cup {row}
            /\ tasks'[s].pc = "lb_select" )]_vars

C6_UpsertByNaturalKey == []C6_UniqueKeys /\ C6_SaveReplaces

----------------------------------------------------------------------------
(* Categories: the category handlers in slot 1, with the entry of a       *)
(* transaction in slot 2.                                                  *)
InitCategory ==
  /\ Init
  /\ tz = 0
  /\ budStore = {BRow(User, <<2024, 1>>, "shokuhi", 1)}

HasRoom == BagCardinality(txStore) < MaxTx

CategorySteps(s) ==
  \/ LcSelect(s)
  \/ LcSeed(s)
  \/ LcReselect(s)
  \/ AcInsert(s)
  \/ RcUpdate(s)
  \/ RcUpdateTx(s)
  \/ \E accept \in BOOLEAN : DcCount(s, accept)
  \/ DcDelete(s)
  \/ DcDeleteBudgets(s)

NextCategory ==
  \/ NetFlip
  \/ StartLoadCategories(1)
  \/ StartAddCategory(1, "ryoko")
  \/ StartRenameCategory(1, "shokuhi", "ryoko")
  \/ \E name \in {"shokuhi", "sonota"} : StartDeleteCategory(1, name)
  \/ CategorySteps(1)
  \/ SetForm("amount", Num(4))
  \/ HasRoom /\ StartSubmit(2)
  \/ HsInsert(2)
  \/ LtSelect(2)

SpecCategory == InitCategory /\ [][NextCategory]_vars

(* C2: the delete of handleDeleteCategory reaches the categories table    *)
(* only while no stored transaction of the owner carries the name, and a   *)
(* count that finds the name in use ends the handler with no write sent.   *)
C2_InUseIsNeverDeleted ==
  [][\A s \in Slots :
       LET inUse == CountByCategory(txStore, session, tasks[s].n) > 0 IN
       /\ (StepsAt(s, "dc_delete") /\ catStore' # catStore) => ~inUse
       /\ (StepsAt(s, "dc_count") /\ netOk /\ inUse)
            => (tasks'[s] = Idle /\ UNCHANGED storeVars)]_vars

(* C3: when the transaction update of handleRenameCategory is answered,    *)
(* the category row being renamed already, no stored transaction of the    *)
(* owner keeps the old name: the rows that had it carry the new one and    *)
(* nothing else differs; also when that update returns an error.           *)
C3_RenameCascades ==
  [][\A s \in Slots :
       StepsAt(s, "rc_update_tx") =>
         /\ CountByCategory(txStore', session, tasks[s].n) = 0
         /\ txStore' = RenameInTransactions(txStore, session, tasks[s].n, tasks[s].n2)]_vars

(* C9: a step in which one of the listed handlers ends on a store error    *)
(* leaves the transactions, categories and budgets held in memory as they  *)
(* were.                                                                   *)
C9Handlers ==
  {"loadTransactions", "loadCategories", "loadBudgets", "submit", "delete",
   "addCategory", "saveBudget", "copyBudgets", "importTransactions",
   "importCategories", "importBudgets"}

C9_ErrorLeavesMemory ==
  [][\A s \in Slots :
       ( /\ tasks[s].kind \in C9Handlers
         /\ tasks'[s] = Idle
         /\ status'.err # "" )
       => UNCHANGED <<transactions, categories, budgets>>]_vars

----------------------------------------------------------------------------
(* Entry of transactions: the form, handleSubmit, the import of a          *)
(* transactions CSV, one handler at a time.                                *)
TxFiles ==
  { File("hizuke", <<>>),
    File("kategori", <<TxCells("2024-02-01", "shishutsu", "shohi", "shokuhi", Num(4))>>),
    File("hizuke", <<TxCells("2024-02-01", "shunyu", "rohi", "", Num(-4))>>),
    File("hizuke", <<TxCells("", "shishutsu", "shohi", "shokuhi", Num(4)),
                     TxCells("2024-02-03", "shishutsu", "shohi", "shokuhi", NaNText)>>),
    File("hizuke", <<TxCells("2024-02-02", "shishutsu", "toshi", "gaishoku", Num(4)),
                     TxCells("2024-02-03", "shishutsu", "", "", EmptyText)>>) }

InitEntry ==
  /\ Init
  /\ tz = 0
  /\ budStore = {}
  /\ txStore = EmptyBag

EntrySteps(s) ==
  \/ HsInsert(s)
  \/ ImInsertTx(s)
  \/ LtSelect(s)

NextEntry ==
  \/ NetFlip
  \/ \E value \in types : SetForm("type", value)
  \/ \E value \in {"consumption", "waste"} : SetForm("purpose", value)
  \/ \E value \in SeqToSet(FormOptions) : SetForm("category", value)
  \/ SetForm("amount", Num(4))
  \/ HasRoom /\ StartSubmit(1)
  \/ \E file \in TxFiles : HasRoom /\ StartImportTransactions(1, file)
  \/ EntrySteps(1)

SpecEntry == InitEntry /\ [][NextEntry]_vars

(* C4: every stored transaction of type income has purpose consumption,    *)
(* whatever edits of the form came before handleSubmit and whatever rows   *)
(* a CSV holds.                                                            *)
C4_IncomeIsConsumption ==
  \A r \in BagToSet(txStore) : r.type = "income" => r.purpose = "consumption"

(* C8: each transaction that handleSubmit or the import writes carries a   *)
(* category that is, when the insert is served, the name of a stored       *)
(* category of its owner.                                                  *)
C8_CategoryExists ==
  [][\A r \in BagToSet(txStore') :
       CopiesIn(r, txStore') > CopiesIn(r, txStore)
         => Includes(catStore, CatRow(r.user_id, r.category))]_vars

----------------------------------------------------------------------------
(* Writes: every handler that sends an amount to the store, with negative  *)
(* and fractional inputs, one handler at a time.                           *)
InitWrites ==
  /\ Init
  /\ tz = 0
  /\ budStore = {BRow(User, <<2024, 1>>, "shokuhi", 1)}
  /\ txStore = EmptyBag

SignedTxFiles ==
  { File("hizuke", <<TxCells("2024-02-01", "shunyu", "rohi", "", Num(-4))>>),
    File("hizuke", <<TxCells("2024-02-02", "shishutsu", "toshi", "gaishoku", Num(3)),
                     TxCells("2024-02-03", "shishutsu", "", "", EmptyText)>>) }

SignedBudgetFiles ==
  { File("tsuki", <<BudCells(<<2024, 2>>, "shokuhi", Num(-4))>>),
    File("tsuki", <<BudCells(<<2024, 1>>, "sonota", Num(3))>>) }

WriteSteps(s) ==
  \/ BudgetWriteSteps(s)
  \/ ImInsertBudgets(s)
  \/ ImInsertTx(s)
  \/ HsInsert(s)
  \/ LtSelect(s)

NextWrites ==
  \/ NetFlip
  \/ \E value \in {Num(-4), Num(3)} : SetForm("amount", value)
  \/ HasRoom /\ StartSubmit(1)
  \/ \E file \in SignedTxFiles : HasRoom /\ StartImportTransactions(1, file)
  \/ \E file \in SignedBudgetFiles : StartImportBudgets(1, file)
  \/ handleBudgetChange("sonota", Num(3))
  \/ StartSaveBudget(1, "sonota")
  \/ StartCopyBudgets(1, TRUE)
  \/ StartLoadBudgets(1)
  \/ WriteSteps(1)

SpecWrites == InitWrites /\ [][NextWrites]_vars

\* the rows of the bag `after` that the bag `before` has fewer copies of
AddedRows(before, after) ==
  {r \in BagToSet(after) : CopiesIn(r, after) > CopiesIn(r, before)}

Magnitude(h) == IF h < 0 THEN 0 - h ELSE h

C7_NothingNegativeStored ==
  /\ \A r \in BagToSet(txStore) : r.amount >= 0
  /\ \A r \in budStore : r.amount >= 0

\* handleSubmit: a whole input, negative or not, is stored as its magnitude
C7_SubmitStoresAbs ==
  [][\A s \in Slots :
       (StepsAt(s, "hs_insert") /\ netOk /\ tasks[s].amt % 2 = 0)
       => \E r \in AddedRows(txStore, txStore') :
            /\ r.amount * 2 = Magnitude(tasks[s].amt)
            /\ txStore' = txStore (+) BagOf(r)]_vars

\* the import: every row it adds is a row of the file, with its magnitude
C7_ImportStoresAbs ==
  [][\A s \in Slots :
       StepsAt(s, "im_insert_tx") =>
         \A r \in AddedRows(txStore, txStore') :
           \E i \in 1..Len(tasks[s].body) :
             LET c == tasks[s].body[i] IN
             /\ c.date = r.date
             /\ c.amount.t \in {"num", "empty"}
             /\ r.amount * 2 = Magnitude(IF c.amount.t = "num" THEN c.amount.h ELSE 0)]_vars

----------------------------------------------------------------------------
(* Validation: the handlers that check their input before they write,      *)
(* with inputs that pass and inputs that do not, one handler at a time,    *)
(* the store answering every request.                                      *)
HeaderFiles ==
  { File("hizuke", <<TxCells("2024-02-01", "shishutsu", "shohi", "shokuhi", Num(4))>>),
    File("kategori", <<"ryoko">>),
    File("tsuki", <<BudCells(<<2024, 2>>, "shokuhi", Num(4))>>) }

ValidationSteps(s) ==
  \/ BudgetWriteSteps(s)
  \/ ImInsertBudgets(s)
  \/ ImInsertTx(s)
  \/ ImInsertCat(s)
  \/ HsInsert(s)
  \/ LtSelect(s)
  \/ LcSelect(s)

NextValidation ==
  \/ \E value \in {NaNText, Num(4)} : SetForm("amount", value)
  \/ HasRoom /\ StartSubmit(1)
  \/ \E file \in HeaderFiles : HasRoom /\ StartImportTransactions(1, file)
  \/ \E file \in HeaderFiles : StartImportCategories(1, file)
  \/ \E file \in HeaderFiles : StartImportBudgets(1, file)
  \/ \E value \in {NaNText, Num(-1), Num(3)} : handleBudgetChange("sonota", value)
  \/ StartSaveBudget(1, "sonota")
  \/ \E mo \in {NoMonth, <<2024, 1>>, <<2024, 2>>} : SetCopyFromMonth(mo)
  \/ StartCopyBudgets(1, TRUE)
  \/ StartLoadBudgets(1)
  \/ ValidationSteps(1)

SpecValidation == InitWrites /\ [][NextValidation]_vars

\* slot s leaves idle: a handler has sent its first request
Starts(s, kind) == tasks[s] = Idle /\ tasks'[s].kind = kind

DraftOf(name) == IF name \in DOMAIN budgetDrafts THEN budgetDrafts[name] ELSE Undefined

(* C10: a handler sends a request only when its input is valid: the        *)
(* amount of the form is a number for handleSubmit, the draft is a number  *)
(* that is not negative for saveBudget, the first header cell is the label *)
(* of the chosen kind for an import, the source month is chosen and is not *)
(* the target for a manual copy; a copy whose source month has no budget   *)
(* ends after its read; and a step that sends no request and answers none  *)
(* leaves the stored data as it is.                                        *)
C10_InvalidInputWritesNothing ==
  [][/\ \A s \in Slots :
          /\ Starts(s, "submit") => form.amount.t = "num"
          /\ Starts(s, "saveBudget") =>
               (DraftOf(tasks'[s].n).t = "num" /\ DraftOf(tasks'[s].n).h >= 0)
          /\ Starts(s, "importTransactions") => tasks'[s].header = "hizuke"
          /\ Starts(s, "importCategories") => tasks'[s].header = "kategori"
          /\ Starts(s, "importBudgets") => tasks'[s].header = "tsuki"
          /\ Starts(s, "copyBudgets") =>
               (copyFromMonth # NoMonth /\ copyFromMonth # month)
          /\ ( /\ StepsAt(s, "cp_select")
               /\ \A r \in budStore : r.month # tasks[s].m2 )
               => (tasks'[s] = Idle /\ UNCHANGED storeVars)
     /\ (tasks' = tasks) => UNCHANGED storeVars]_vars

\* saveBudget has refused a negative draft and the store holds what it held
C10_Witness ==
  /\ status = St("budget must be a number >= 0", "")
  /\ DraftOf("sonota") = Num(-1)
  /\ \A s \in Slots : IsIdle(s)
  /\ budStore = {BRow(User, <<2024, 1>>, "shokuhi", 1)}

\* ---------------------------------------------------------------------
\* CSV import: which rows of a file are written
\* ---------------------------------------------------------------------

PartialTxFiles ==
  { File("hizuke", <<TxCells("2024-02-01", "shishutsu", "shohi", "shokuhi", Num(4)),
                     TxCells("", "shishutsu", "shohi", "shokuhi", Num(4)),
                     TxCells("2024-02-03", "shishutsu", "shohi", "shokuhi", NaNText)>>),
    File("hizuke", <<TxCells("", "shunyu", "", "rodo", Num(4)),
                     TxCells("2024-02-03", "shunyu", "", "rodo", NaNText)>>),
    File("hizuke", <<TxCells("2024-02-03", "shishutsu", "", "", EmptyText)>>) }

PartialCategoryFiles ==
  { File("kategori", <<"", "ryoko">>),
    File("kategori", <<"">>) }

PartialBudgetFiles ==
  { File("tsuki", <<BudCells(<<2024, 1>>, "sonota", Num(4)),
                    BudCells(<<2024, 1>>, "", Num(2)),
                    BudCells(NoMonth, "sonota", Num(2)),
                    BudCells(<<2024, 1>>, "ryoko", NaNText)>>),
    File("tsuki", <<BudCells(<<2024, 2>>, "", Num(2)),
                    BudCells(NoMonth, "sonota", Num(2))>>),
    File("tsuki", <<BudCells(<<2024, 2>>, "sonota", EmptyText)>>) }

ImportSteps(s) ==
  \/ ImInsertTx(s)
  \/ ImInsertCat(s)
  \/ ImInsertBudgets(s)
  \/ LtSelect(s)
  \/ LcSelect(s)
  \/ RolloverSteps(s)

NextImport ==
  \/ NetFlip
  \/ \E file \in PartialTxFiles : HasRoom /\ StartImportTransactions(1, file)
  \/ \E file \in PartialCategoryFiles : StartImportCategories(1, file)
  \/ \E file \in PartialBudgetFiles : StartImportBudgets(1, file)
  \/ \E mo \in Months : SetMonth(1, mo)
  \/ ImportSteps(1)

SpecImport == InitWrites /\ [][NextImport]_vars

\* the rows of a file body that have every required cell and a numeric amount
CompleteRows(body, kind) ==
  { i \in 1..Len(body) :
      CASE kind = "transactions" ->
             body[i].date # "" /\ body[i].amount.t = "num"
        [] kind = "budgets" ->
             /\ body[i].monthValue # NoMonth
             /\ body[i].category # ""
             /\ body[i].amount.t = "num"
        [] OTHER -> body[i] # "" }

\* C11: an import writes exactly the rows whose required cells are filled
\* and whose amount cell is a number (transactions: date and amount;
\* budgets: month, category and amount; categories: name); the other rows
\* are left out without an error, and when every row is left out the
\* import reports that there is nothing to import and writes nothing.
C11_CompleteRowsAreImported ==
  [][/\ \A s \in Slots :
          /\ Starts(s, "importTransactions") =>
               /\ BagCardinality(tasks'[s].txs)
                    = Cardinality(CompleteRows(tasks'[s].body, "transactions"))
               /\ status' = status
          /\ Starts(s, "importBudgets") =>
               /\ Cardinality(tasks'[s].rows)
                    = Cardinality(CompleteRows(tasks'[s].body, "budgets"))
               /\ status' = status
          /\ Starts(s, "importCategories") =>
               /\ Len(tasks'[s].names)
                    = Cardinality(CompleteRows(tasks'[s].body, "categories"))
               /\ status' = status
          /\ (StepsAt(s, "im_insert_tx") /\ tasks'[s].pc # "im_insert_tx"
                /\ status'.err = "") =>
               txStore' = txStore (+) tasks[s].txs
     /\ (status' # status /\ status'.msg \in {"no transaction to import",
                                             "no category to import",
                                             "no budget to import"}) =>
          (tasks' = tasks /\ UNCHANGED storeVars)]_vars

\* a row with an empty amount cell has been imported with amount 0
C11_EmptyAmountImported ==
  \E r \in BagToSet(txStore) : r.date = "2024-02-03" /\ r.amount = 0

\* ---------------------------------------------------------------------
\* The CSV codec: downloadCsv, parseCsv and the import of what they wrote
\* ---------------------------------------------------------------------

MaxItems == 2     \* transactions stored before an import

\* the numbers whose decimal text a cell of the model can hold
Numerals == {0, 4, 5, 12, -4}

\* String(cell) of a number
NumeralOf(n) == ToString(n)

\* Number(cell) of a trimmed cell: '' is 0, a numeral is its number, any
\* other text is NaN
AmountText(chars) ==
  IF chars = <<>> THEN EmptyText
  ELSE IF Len(chars) = 1 /\ \E n \in Numerals : NumeralOf(n) = chars[1]
  THEN Num(2 * (CHOOSE n \in Numerals : NumeralOf(n) = chars[1]))
  ELSE NaNText

\* line 520: replace(/"/g, '""')
RECURSIVE DoubleQuotes(_)
DoubleQuotes(chars) ==
  IF chars = <<>> THEN <<>>
  ELSE (IF Head(chars) = "\"" THEN <<"\"", "\"">> ELSE <<Head(chars)>>)
         \o DoubleQuotes(Tail(chars))

\* a cell written between quotes with its own quotes left single
EscapeCell_Plain(chars) == <<"\"">> \o chars \o <<"\"">>
\* line 520: the cell between quotes, its own quotes doubled
EscapeCell(chars) == <<"\"">> \o DoubleQuotes(chars) \o <<"\"">>

\* Array.prototype.join on sequences of characters
RECURSIVE JoinWith(_, _)
JoinWith(parts, sep) ==
  IF parts = <<>> THEN <<>>
  ELSE IF Len(parts) = 1 THEN parts[1]
  ELSE parts[1] \o sep \o JoinWith(Tail(parts), sep)

\* lines 519-521
CsvText(rows) ==
  JoinWith([i \in 1..Len(rows) |->
              JoinWith([j \in 1..Len(rows[i]) |-> EscapeCell(rows[i][j])], <<",">>)],
           <<"\n">>)

\* line 508
TxHeaderRow ==
  << <<"hizuke">>, <<"shubetsu">>, <<"bunrui">>, <<"kategori">>, <<"memo">>,
     <<"kingaku">> >>

\* lines 509-518
TxLine(item) ==
  << Chars(item.date),
     <<IF item.type = "income" THEN "shunyu" ELSE "shishutsu">>,
     <<IF item.type = "income" THEN "shunyu"
       ELSE IF item.purpose \in purposes THEN PurposeLabel(item.purpose)
       ELSE "shohi">>,
     Chars(item.category),
     Chars(item.note),
     <<NumeralOf(item.amount)>> >>

\* the rows a select hands over: order by date descending (line 160)
Listed(b) ==
  LET n == BagCardinality(b) IN
  { q \in [1..n -> BagToSet(b)] :
      /\ \A r \in BagToSet(b) : Cardinality({i \in 1..n : q[i] = r}) = b[r]
      /\ \A i, j \in 1..n : i < j => DateKey(q[i].date) >= DateKey(q[j].date) }

\* lines 507-529, called with the transactions in memory (lines 1009, 1138)
downloadCsv(items, filename) ==
  /\ session # NoSession
  /\ ~Blocked
  /\ downloads' = [filename |-> filename, items |-> items,
                   text |-> CsvText(<<TxHeaderRow>> \o
                                    [i \in 1..Len(items) |-> TxLine(items[i])])]
  /\ downloads' # downloads
  /\ UNCHANGED <<memVars, storeVars, envVars, tasks, filters>>

\* line 60: split(/\r?\n/)
SplitLines(chars) ==
  LET n == Len(chars)
      breaks == {i \in 1..n : chars[i] = "\n"}
      starts == {1} \cup {i + 1 : i \in breaks}
      StartOf(k) == CHOOSE a \in starts : Cardinality({b \in starts : b < a}) = k - 1
      EndOf(a) ==
        IF \E i \in breaks : i >= a
        THEN LET i == CHOOSE i \in breaks : i >= a /\ \A j \in breaks : j >= a => i <= j
             IN  IF i - 1 >= a /\ chars[i - 1] = "\r" THEN i - 2 ELSE i - 1
        ELSE n
  IN  [k \in 1..Cardinality(starts) |-> SubSeq(chars, StartOf(k), EndOf(StartOf(k)))]

\* lines 65-83: the loop over the characters of one line
RECURSIVE ScanLine(_, _, _, _, _)
ScanLine(line, i, current, inQuotes, result) ==
  IF i > Len(line) THEN Append(result, current)
  ELSE LET char == line[i]
           next == IF i < Len(line) THEN line[i + 1] ELSE ""
       IN  IF char = "\"" /\ inQuotes /\ next = "\""
           THEN ScanLine(line, i + 2, Append(current, "\""), inQuotes, result)
           ELSE IF char = "\""
           THEN ScanLine(line, i + 1, current, ~inQuotes, result)
           ELSE IF char = "," /\ ~inQuotes
           THEN ScanLine(line, i + 1, <<>>, inQuotes, Append(result, current))
           ELSE ScanLine(line, i + 1, Append(current, char), inQuotes, result)

\* lines 59-87
parseCsv(text) ==
  LET lines == SelectSeq(SplitLines(text), LAMBDA line : Trim(line) # <<>>)
  IN  [k \in 1..Len(lines) |->
         LET result == ScanLine(lines[k], 1, <<>>, FALSE, <<>>)
         IN  [j \in 1..Len(result) |-> Trim(result[j])]]

\* line 612: the destructured cells of a row; a missing cell is undefined,
\* which reads as '' where a text is wanted and as NaN under Number
TxCellsOf(row) ==
  LET Cell(j) == IF j <= Len(row) THEN Str(row[j]) ELSE ""
  IN  [date |-> Cell(1), typeLabel |-> Cell(2), purposeLabel |-> Cell(3),
       category |-> Cell(4), note |-> Cell(5),
       amount |-> IF Len(row) < 6 THEN NaNText ELSE AmountText(row[6])]

\* lines 595-603 for a transactions file: the header cell and the rows
\* after the header that have a cell with some text
ParsedTxFile(text) ==
  LET rows == parseCsv(text)
      body == SelectSeq(SubSeq(rows, 2, Len(rows)),
                        LAMBDA row : \E j \in 1..Len(row) : row[j] # <<>>)
  IN  IF Len(rows) <= 1 THEN File("", <<>>)
      ELSE File(IF Len(rows[1]) > 0 THEN Str(rows[1][1]) ELSE "",
                [i \in 1..Len(body) |-> TxCellsOf(body[i])])

\* lines 611-628, row for row
TransactionRows(body, u) ==
  LET kept == SelectSeq(body, TxKept)
  IN  [i \in 1..Len(kept) |-> TxFromCells(kept[i], u)]

CsvStores ==
  LET Rows ==
        { Noted(TRow(User, "2024-02-01", 4, "expense", "waste", "shokuhi"), "a,b"),
          Noted(TRow(User, "2024-02-02", 5, "expense", "investment", "ryoko"), "\"hi\""),
          Noted(TRow(User, "2024-02-02", 12, "income", "consumption", "rodo"), ""),
          Noted(TRow(User, "2024-02-03", 4, "expense", "consumption", "a, \"b\""),
                "a, \"b\""),
          Noted(TRow(User, "2024-02-01", 0, "income", "waste", "sonota"), "memo"),
          Noted(TRow(User, "2024-02-03", 5, "expense", "consumption", "shokuhi"),
                " pad "),
          Noted(TRow(User, "2024-02-10", 5, "expense", "waste", " pad "), ""),
          Noted(TRow(User, "2024-02-10", 4, "expense", "waste", "sonota"),
                "two\nlines") }
  IN  { SetToBag(S) : S \in {S \in SUBSET Rows : Cardinality(S) <= MaxItems} }

InitCsv ==
  /\ Fresh
  /\ tz = 0
  /\ txStore \in CsvStores
  /\ budStore = {}

CsvSteps(s) ==
  \/ ImInsertTx(s)
  \/ LtSelect(s)

NextCsv ==
  \/ NetFlip
  \/ StartLoadTransactions(1)
  \/ \E items \in Listed(transactions) : downloadCsv(items, "kakeibo-all.csv")
  \/ /\ downloads # NoFile
     /\ BagCardinality(txStore) <= MaxItems
     /\ StartImportTransactions(1, ParsedTxFile(downloads.text))
  \/ CsvSteps(1)

SpecCsv == InitCsv /\ [][NextCsv]_vars

\* what the round trip compares in a transaction
Tuple(r) ==
  <<r.date, r.type, IF r.type = "expense" THEN r.purpose ELSE "", r.category,
    r.note, r.amount>>

\* the transactions read back from a text, as the store would hold them
ReadBack(text) ==
  LET rows == TransactionRows(ParsedTxFile(text).body, User)
  IN  [i \in 1..Len(rows) |-> Tuple(AsStored(rows[i]))]

Written(items) == [i \in 1..Len(items) |-> Tuple(items[i])]

\* a text as the form and the import leave it: no blank or line break at
\* either end and no line break inside
Plain(str) ==
  /\ Trim(Chars(str)) = Chars(str)
  /\ \A i \in 1..Len(Chars(str)) : Chars(str)[i] \notin {"\n", "\r"}

\* a transaction as handleSubmit and handleImport write it
AsWritten(r) ==
  /\ Plain(r.note) /\ Plain(r.category) /\ Plain(r.date)
  /\ r.date # "" /\ r.category # ""
  /\ r.amount >= 0

\* C12 as stated: the file written by downloadCsv, read by parseCsv and
\* mapped by the transactions import, gives row for row the tuples (date,
\* type, purpose of an expense, category, note, amount) of the
\* transactions written, also when a note or a category has commas,
\* double quotes or blanks at its ends.
C12_RoundTrip ==
  downloads # NoFile => ReadBack(downloads.text) = Written(downloads.items)

\* C12: the round trip gives back, row for row, the tuples of the
\* transactions written when their date, category and note have no blank
\* at either end and no line break, date and category are not empty and
\* the amount is not negative; commas, double quotes and blanks inside a
\* text come back as they were.
C12_RoundTripOfPlainText ==
  (downloads # NoFile /\ \A i \in 1..Len(downloads.items) : AsWritten(downloads.items[i]))
     => ReadBack(downloads.text) = Written(downloads.items)

\* two transactions whose texts have a comma, a blank and double quotes
\* have been downloaded and the file has been imported
C12_Witness ==
  /\ Len(downloads.items) = 2
  /\ \A i \in 1..2 : AsWritten(downloads.items[i])
  /\ \E i \in 1..2 : downloads.items[i].note = "a, \"b\""
  /\ \E i \in 1..2 : downloads.items[i].note = "\"hi\""
  /\ \A r \in BagToSet(transactions) : CopiesIn(r, transactions) = 2
  /\ BagCardinality(transactions) = 4

\* ---------------------------------------------------------------------
\* The session: handleLogout and the auth listener
\* ---------------------------------------------------------------------

\* the requests in flight when the session ends: one that has left the
\* page carries the token it was sent with, one that has not is sent
\* without a token
TokensAfter(sent) ==
  [r \in Slots |-> IF IsIdle(r) \/ sent[r] THEN tasks[r]
                   ELSE [tasks[r] EXCEPT !.token = NoSession]]

\* line 188: handleLogout calls signOut
StartLogout(s) ==
  /\ CanStart(s)
  /\ tasks' = [tasks EXCEPT ![s] =
       [Issue(Idle) EXCEPT !.kind = "logout", !.pc = "lo_signout"]]
  /\ UNCHANGED <<memVars, storeVars, envVars, viewVars>>

\* lines 188-192: signOut returns. When the server was reached the session
\* is removed and the listener of line 134 sets session to null; the four
\* setters run whatever signOut returned.
LoSignOut(s) ==
  /\ tasks[s].pc = "lo_signout"
  /\ ~Blocked
  /\ IF netOk
     THEN /\ session' = NoSession
          /\ \E sent \in [Slots -> BOOLEAN] :
               tasks' = [TokensAfter(sent) EXCEPT ![s] = Idle]
     ELSE /\ tasks' = [tasks EXCEPT ![s] = Idle]
          /\ UNCHANGED session
  /\ transactions' = EmptyBag
  /\ categories' = defaultCategories
  /\ budgets' = NoMap
  /\ budgetDrafts' = NoMap
  \* lines 720-730: the effect on the filters runs when categories changed
  /\ filters' = CorrectFilters(filters, categories')
  /\ UNCHANGED <<status, loading, copyFromMonth, month, form, storeVars, envVars,
                 downloads>>

\* lines 134-136: the listener is called with no session (the user signed
\* out in another tab, or the session could not be refreshed)
AuthLost ==
  /\ session # NoSession
  /\ ~Blocked
  /\ session' = NoSession
  /\ \E sent \in [Slots -> BOOLEAN] : tasks' = TokensAfter(sent)
  /\ UNCHANGED <<status, loading, transactions, categories, budgets, budgetDrafts,
                 copyFromMonth, month, form, storeVars, envVars, viewVars>>

\* lines 134-136: the listener is called with a session (the login link
\* was followed); the loads of lines 144-149 are StartLoad* from then on
AuthGained ==
  /\ session = NoSession
  /\ session' = User
  /\ UNCHANGED <<status, loading, transactions, categories, budgets, budgetDrafts,
                 copyFromMonth, month, form, storeVars, envVars, viewVars, tasks>>

InitSession ==
  /\ Fresh
  /\ tz = 0
  /\ txStore = BagOf(TRow(User, FormDate, 5, "expense", "waste", "shokuhi"))
  /\ budStore = {BRow(User, <<2024, 1>>, "shokuhi", 1)}

\* the owner has categories stored, so a seed is sent only by a load that
\* lost its token, and it is refused
SessionSteps(s) ==
  \/ LtSelect(s)
  \/ LcSelect(s)
  \/ LcSeed(s)
  \/ RolloverSteps(s)
  \/ LoSignOut(s)

NextSession ==
  \/ NetFlip
  \/ StartLoadTransactions(1)
  \/ StartLoadCategories(1)
  \/ StartLoadBudgets(1)
  \/ StartLogout(2)
  \/ AuthLost
  \/ AuthGained
  \/ \E s \in Slots : SessionSteps(s)

SpecSession == InitSession /\ [][NextSession]_vars

\* C13: while there is no session, the transactions and the budgets in
\* memory are empty and the categories in memory are the default ones,
\* also when a load sent before the session ended is answered afterwards.
C13_NoSessionNoData ==
  session = NoSession =>
    /\ transactions = EmptyBag
    /\ budgets = NoMap
    /\ categories = defaultCategories

\* transactions in memory that are empty while there is no session stay
\* empty (a load sent before the session ended may still be answered)
EmptyStaysEmpty ==
  [][(session = NoSession /\ transactions = EmptyBag) => transactions' = EmptyBag]_vars

\* ---------------------------------------------------------------------
\* The loading flag and the controls it disables
\* ---------------------------------------------------------------------

LoadingSteps(s) ==
  \/ BudgetWriteSteps(s)
  \/ HsInsert(s)
  \/ LtSelect(s)

NextLoading ==
  \/ handleBudgetChange("sonota", Num(3))
  \/ SetForm("amount", Num(4))
  \/ \E s \in Slots :
       \/ FirstFree(s) /\ StartSaveBudget(s, "sonota")
       \/ FirstFree(s) /\ StartCopyBudgets(s, TRUE)
       \/ FirstFree(s) /\ StartLoadBudgets(s)
       \/ FirstFree(s) /\ HasRoom /\ StartSubmit(s)
       \/ LoadingSteps(s)

SpecLoading == InitWrites /\ [][NextLoading]_vars

\* the handlers that write to the store
WriteKinds ==
  {"submit", "addCategory", "saveBudget", "copyBudgets", "importTransactions",
   "importCategories", "importBudgets"}

\* C14: while a handler that talks to the store is in flight, loading is
\* true, and no two instances of the same writing handler are in flight
\* together.
C14_LoadingGuards ==
  /\ (\E s \in Slots : ~IsIdle(s)) => loading
  /\ \A s, r \in Slots :
       (s # r /\ tasks[s].kind \in WriteKinds) => tasks[r].kind # tasks[s].kind

\* two saveBudget are in flight together
TwoSavesInFlight ==
  \A s \in Slots : tasks[s].kind = "saveBudget"

\* ---------------------------------------------------------------------
\* Arithmetic of the page
\* ---------------------------------------------------------------------

(* Numbers of the page are IEEE 754 doubles. A positive double is kept as *)
(* [bits, exp]: the binary digits of its 53-bit significand, first digit   *)
(* 1, and the power of two that multiplies it.                             *)
Limb == 32768    \* 2^15

RECURSIVE Pow2(_)
Pow2(n) == IF n = 0 THEN 1 ELSE 2 * Pow2(n - 1)

\* the binary digits of limb q, most significant first, on `width` digits
LimbBits(q, width) == [i \in 1..width |-> (q \div Pow2(width - i)) % 2]

RECURSIVE Flatten(_)
Flatten(parts) == IF parts = <<>> THEN <<>> ELSE Head(parts) \o Flatten(Tail(parts))

\* without the leading zeros
Significant(bits) ==
  IF \A i \in 1..Len(bits) : bits[i] = 0 THEN <<>>
  ELSE LET first == CHOOSE i \in 1..Len(bits) :
                       bits[i] = 1 /\ \A j \in 1..(i - 1) : bits[j] = 0
       IN  SubSeq(bits, first, Len(bits))

\* bits + 1
Increment(bits) ==
  IF \A i \in 1..Len(bits) : bits[i] = 1
  THEN <<1>> \o [i \in 1..Len(bits) |-> 0]
  ELSE LET last == CHOOSE i \in 1..Len(bits) :
                      bits[i] = 0 /\ \A j \in (i + 1)..Len(bits) : bits[j] = 1
       IN  [i \in 1..Len(bits) |-> IF i < last THEN bits[i] ELSE IF i = last THEN 1 ELSE 0]

\* round to nearest, ties to even, on 53 digits: the number is `bits` (first
\* digit 1) times 2^exp, plus something below the last digit when `sticky`
RoundTo53(bits, exp, sticky) ==
  IF Len(bits) <= 53
  THEN [bits |-> bits, exp |-> exp]
  ELSE LET keep  == SubSeq(bits, 1, 53)
           guard == bits[54]
           rest  == sticky \/ \E i \in 55..Len(bits) : bits[i] = 1
           up    == guard = 1 /\ (rest \/ keep[53] = 1)
           kept  == IF up THEN Increment(keep) ELSE keep
       IN  [bits |-> kept, exp |-> exp + (Len(bits) - 53)]

\* the digits of the quotient a / b, limb by limb: `count` more limbs
RECURSIVE QuotientLimbs(_, _, _)
QuotientLimbs(r, b, count) ==
  IF count = 0 THEN <<>>
  ELSE <<LimbBits((r * Limb) \div b, 15)>> \o QuotientLimbs((r * Limb) % b, b, count - 1)

RECURSIVE RemainderAfter(_, _, _)
RemainderAfter(r, b, count) ==
  IF count = 0 THEN r ELSE RemainderAfter((r * Limb) % b, b, count - 1)

\* a / b for integers 0 < a, b < 2^15: 75 more digits than a \div b has are
\* worked out, which is more than 53 significant ones, and rounded
Divide(a, b) ==
  LET whole == LimbBits(a \div b, 15)
      bits  == Significant(whole \o Flatten(QuotientLimbs(a % b, b, 5)))
      left  == RemainderAfter(a % b, b, 5)
  IN  RoundTo53(bits, -75, left # 0)

\* the integer of digits `bits`
RECURSIVE Value(_)
Value(bits) ==
  IF bits = <<>> THEN 0 ELSE 2 * Value(SubSeq(bits, 1, Len(bits) - 1)) + bits[Len(bits)]

\* the digits in limbs of 15, the last limb last
Limbs(bits) ==
  LET count  == (Len(bits) + 14) \div 15
      padded == [i \in 1..(15 * count - Len(bits)) |-> 0] \o bits
  IN  [k \in 1..count |-> Value(SubSeq(padded, 15 * k - 14, 15 * k))]

\* limbs * n + carry for an integer 0 < n < 2^15, from the last limb
RECURSIVE TimesLimbs(_, _, _)
TimesLimbs(limbs, n, carry) ==
  IF limbs = <<>> THEN <<LimbBits(carry, 15)>>
  ELSE LET v == limbs[Len(limbs)] * n + carry
       IN  Append(TimesLimbs(SubSeq(limbs, 1, Len(limbs) - 1), n, v \div Limb),
                  LimbBits(v % Limb, 15))

\* d * n for a double d and an integer 0 < n < 2^15: the exact product of the
\* significand, rounded
Times(d, n) ==
  RoundTo53(Significant(Flatten(TimesLimbs(Limbs(d.bits), n, 0))), d.exp, FALSE)

\* Math.round of a positive double: the nearest integer, a tie going up
MathRound(d) ==
  LET n == Len(d.bits) + d.exp    \* digits before the point
  IN  IF d.exp >= 0 THEN Value(d.bits) * Pow2(d.exp)
      ELSE IF n < 0 THEN 0
      ELSE Value(SubSeq(d.bits, 1, n)) + d.bits[n + 1]


\* ---------------------------------------------------------------------
\* The values derived from the state at every render (lines 720-856)
\* ---------------------------------------------------------------------

\* toLowerCase on the texts of the model
LowerCase(str) == CASE str = "Memo" -> "memo" [] str = "MEMO" -> "memo" [] OTHER -> str

\* String.prototype.includes
StrIncludes(target, query) ==
  LET t == Chars(target)
      q == Chars(query)
  IN  \E i \in 0..(Len(t) - Len(q)) : SubSeq(t, i + 1, i + Len(q)) = q

\* lines 836-840
filterCategoryOptions ==
  IF filters.type = "income" THEN SeqToSet(incomeCategories)
  ELSE IF filters.type = "expense" THEN SeqToSet(categories)
  ELSE SeqToSet(categories) \cup SeqToSet(incomeCategories)

\* the filter inputs (lines 1020-1090)
SetFilter(field, value) ==
  /\ session # NoSession
  /\ ~Blocked
  /\ CASE field = "type"     -> value \in {"all"} \cup types
       [] field = "purpose"  -> filters.type # "income" /\ value \in {"all"} \cup purposes
       [] field = "category" -> value \in {"all"} \cup filterCategoryOptions
       [] OTHER              -> TRUE
  /\ filters' = CorrectFilters([filters EXCEPT ![field] = value], categories)
  /\ filters' # filters
  /\ UNCHANGED <<memVars, storeVars, envVars, tasks, downloads>>

\* the reset button (line 1123)
ResetFilters ==
  /\ session # NoSession
  /\ ~Blocked
  /\ filters' = CorrectFilters(NoFilters, categories)
  /\ filters' # filters
  /\ UNCHANGED <<memVars, storeVars, envVars, tasks, downloads>>

\* the array `transactions`, in the order the select gave
Rows == CHOOSE q \in Listed(transactions) : TRUE

\* reduce((sum, item) => sum + item.amount, 0)
RECURSIVE SumAmounts(_)
SumAmounts(items) ==
  IF items = <<>> THEN 0
  ELSE SumAmounts(SubSeq(items, 1, Len(items) - 1)) + items[Len(items)].amount

OfType(items, type) == SelectSeq(items, LAMBDA item : item.type = type)

\* lines 732-734
monthItems == SelectSeq(Rows, LAMBDA item : toMonth(item.date) = month)

\* the predicates of lines 737-748 with the purpose asked of every item
Passes_PurposeOfAll(item) ==
  /\ ~(filters.type # "all" /\ item.type # filters.type)
  /\ ~(filters.purpose # "all" /\ item.purpose # filters.purpose)
  /\ ~(filters.category # "all" /\ item.category # filters.category)
  /\ ~(filters.query # ""
         /\ ~StrIncludes(LowerCase(item.note), LowerCase(filters.query)))
  /\ ~(filters.dateFrom # "" /\ DateKey(item.date) < DateKey(filters.dateFrom))
  /\ ~(filters.dateTo # "" /\ DateKey(item.date) > DateKey(filters.dateTo))
\* the predicates of lines 737-748 with the two date bounds taken as strict
Passes_Exclusive(item) ==
  /\ ~(filters.type # "all" /\ item.type # filters.type)
  /\ ~(filters.purpose # "all" /\ item.type = "expense"
         /\ item.purpose # filters.purpose)
  /\ ~(filters.category # "all" /\ item.category # filters.category)
  /\ ~(filters.query # ""
         /\ ~StrIncludes(LowerCase(item.note), LowerCase(filters.query)))
  /\ ~(filters.dateFrom # "" /\ DateKey(item.date) <= DateKey(filters.dateFrom))
  /\ ~(filters.dateTo # "" /\ DateKey(item.date) >= DateKey(filters.dateTo))
\* lines 737-748
Passes(item) ==
  /\ ~(filters.type # "all" /\ item.type # filters.type)
  /\ ~(filters.purpose # "all" /\ item.type = "expense"
         /\ item.purpose # filters.purpose)
  /\ ~(filters.category # "all" /\ item.category # filters.category)
  /\ ~(filters.query # ""
         /\ ~StrIncludes(LowerCase(item.note), LowerCase(filters.query)))
  /\ ~(filters.dateFrom # "" /\ DateKey(item.date) < DateKey(filters.dateFrom))
  /\ ~(filters.dateTo # "" /\ DateKey(item.date) > DateKey(filters.dateTo))

\* lines 736-750
filteredItems == SelectSeq(monthItems, Passes)

\* the items that pass, with the sum taken the other way round
stats_Swapped ==
  LET income  == SumAmounts(OfType(filteredItems, "income"))
      expense == SumAmounts(OfType(filteredItems, "expense"))
  IN  [income |-> income, expense |-> expense, balance |-> expense - income]
\* lines 752-764
stats ==
  LET income  == SumAmounts(OfType(filteredItems, "income"))
      expense == SumAmounts(OfType(filteredItems, "expense"))
  IN  [income |-> income, expense |-> expense, balance |-> income - expense]

\* ---------------------------------------------------------------------
\* The derived values over stored transactions and budgets
\* ---------------------------------------------------------------------

Lunch   == TRow(User, "2024-01-05", 1200, "expense", "consumption", "shokuhi")
Salary  == TRow(User, "2024-01-10", 50000, "income", "consumption", "rodo")
Feast   == Noted(TRow(User, "2024-01-10", 12000, "expense", "waste", "shokuhi"), "Memo")
Stamp   == TRow(User, "2024-02-01", 23, "expense", "investment", "sonota")
Snack   == Noted(TRow(User, "2024-02-03", 23, "expense", "waste", "shokuhi"), "memo")
Refund  == TRow(User, "2024-02-02", 5, "income", "consumption", "sonota")
Dinner  == TRow(User, "2023-12-31", 4, "expense", "consumption", "gaishoku")
Gift    == TRow(User, "2024-01-05", 4, "expense", "investment", "sonota")

StatStores ==
  { SetToBag({Lunch, Salary}),
    SetToBag({Feast}),
    SetToBag({Lunch, Feast, Salary}),
    SetToBag({Lunch, Gift, Salary}),
    SetToBag({Stamp, Refund}),
    SetToBag({Stamp, Snack, Dinner}),
    SetToBag({Stamp}) (+) SetToBag({Stamp, Refund}),
    SetToBag({Lunch, Snack, Dinner}) }

StatBudStores ==
  { {BRow(User, <<2024, 1>>, "shokuhi", 10000)},
    {BRow(User, <<2024, 1>>, "shokuhi", 10000), BRow(User, <<2024, 1>>, "sonota", 0),
     BRow(User, <<2024, 2>>, "sonota", 40)},
    {BRow(User, <<2024, 2>>, "sonota", 40), BRow(User, <<2024, 2>>, "shokuhi", 40),
     BRow(User, <<2024, 2>>, "ryoko", 7)} }

InitStats ==
  /\ Fresh
  /\ tz = 0
  /\ txStore \in StatStores
  /\ budStore \in StatBudStores

StatsSteps(s) ==
  \/ LtSelect(s)
  \/ RolloverSteps(s)

NextStats ==
  \/ StartLoadTransactions(1)
  \/ StartLoadBudgets(1)
  \/ \E mo \in {<<2024, 1>>, <<2024, 2>>} : SetMonth(1, mo)
  \/ \E value \in {"all", "income", "expense"} : SetFilter("type", value)
  \/ \E value \in {"all", "waste"} : SetFilter("purpose", value)
  \/ \E value \in {"all", "shokuhi", "rodo"} : SetFilter("category", value)
  \/ \E value \in {"", "MEMO"} : SetFilter("query", value)
  \/ \E value \in {"", "2024-01-10"} : SetFilter("dateFrom", value)
  \/ \E value \in {"", "2024-02-02"} : SetFilter("dateTo", value)
  \/ StatsSteps(1)

SpecStats == InitStats /\ [][NextStats]_vars

\* the transactions in memory that are of the month and pass the filters
InView == {r \in BagToSet(transactions) : toMonth(r.date) = month /\ Passes(r)}

\* the sum of the amounts of the rows of S, each counted as often as it is
\* in memory
RECURSIVE AmountOf(_)
AmountOf(S) ==
  IF S = {} THEN 0
  ELSE LET r == CHOOSE r \in S : TRUE
       IN  CopiesIn(r, transactions) * r.amount + AmountOf(S \ {r})

\* C15: stats.income and stats.expense are the sums of the amounts of the
\* income and of the expense items of the filtered set, and stats.balance
\* is income minus expense; the two transactions of 2024-01 of the example
\* give income 50000, expense 1200 and balance 48800.
C15_StatsAreExactSums ==
  /\ stats.income = AmountOf({r \in InView : r.type = "income"})
  /\ stats.expense = AmountOf({r \in InView : r.type = "expense"})
  /\ stats.balance = AmountOf({r \in InView : r.type = "income"})
                       - AmountOf({r \in InView : r.type = "expense"})
  /\ ( /\ transactions = SetToBag({Lunch, Salary})
       /\ month = <<2024, 1>>
       /\ filters = NoFilters )
       => stats = [income |-> 50000, expense |-> 1200, balance |-> 48800]

\* the two transactions of the example are in memory, the month is 2024-01
\* and no filter is set
C15_Witness ==
  /\ transactions = SetToBag({Lunch, Salary})
  /\ month = <<2024, 1>>
  /\ filters = NoFilters
  /\ stats.balance = 48800

\* map.set(key, (map.get(key) || 0) + amount) over the items in order: the
\* entries of the Map in the order of their first set
RECURSIVE Tally(_)
Tally(items) ==
  IF items = <<>> THEN <<>>
  ELSE LET map  == Tally(SubSeq(items, 1, Len(items) - 1))
           item == items[Len(items)]
       IN  IF \E i \in 1..Len(map) : map[i].name = item.category
           THEN [i \in 1..Len(map) |->
                   IF map[i].name = item.category
                   THEN [map[i] EXCEPT !.value = @ + item.amount]
                   ELSE map[i]]
           ELSE Append(map, [name |-> item.category, value |-> item.amount])

\* the entries of the items of every type
categoryData_AllTypes == Tally(filteredItems)
\* lines 792-800
categoryData == Tally(OfType(filteredItems, "expense"))

\* C16: categoryData has one (name, value) pair for every category that has
\* an expense item in the filtered set and none for any other category,
\* the value is the sum of the expense amounts of the category, and the
\* values add up to stats.expense.
C16_CategoryDataPartitionsExpense ==
  LET spent == {r \in InView : r.type = "expense"}
      Sum[n \in 0..Len(categoryData)] ==
        IF n = 0 THEN 0 ELSE Sum[n - 1] + categoryData[n].value
  IN  /\ {categoryData[i].name : i \in 1..Len(categoryData)} = {r.category : r \in spent}
      /\ \A i, j \in 1..Len(categoryData) :
           categoryData[i].name = categoryData[j].name => i = j
      /\ \A i \in 1..Len(categoryData) :
           categoryData[i].value
             = AmountOf({r \in spent : r.category = categoryData[i].name})
      /\ Sum[Len(categoryData)] = AmountOf(spent)
      /\ Sum[Len(categoryData)] = stats.expense

\* the filtered set has expenses in two categories and an income in a third
C16_Witness ==
  /\ Len(categoryData) = 2
  /\ \E r \in InView : r.type = "income" /\ r.category = "rodo"
  /\ \A i \in 1..2 : categoryData[i].name # "rodo"

\* lines 842-849: the Map from month to [month, income, expense], its
\* entries in the order of their first set
RECURSIVE MonthTally(_)
MonthTally(items) ==
  IF items = <<>> THEN <<>>
  ELSE LET map  == MonthTally(SubSeq(items, 1, Len(items) - 1))
           item == items[Len(items)]
           key  == toMonth(item.date)
           Add(current) ==
             [current EXCEPT
                !.income  = IF item.type = "income" THEN @ + item.amount ELSE @,
                !.expense = IF item.type = "expense" THEN @ + item.amount ELSE @]
       IN  IF \E i \in 1..Len(map) : map[i].month = key
           THEN [i \in 1..Len(map) |-> IF map[i].month = key THEN Add(map[i]) ELSE map[i]]
           ELSE Append(map, Add([month |-> key, income |-> 0, expense |-> 0]))

\* a.month.localeCompare(b.month) < 0 for months written YYYY-MM
MonthBelow(a, b) == a[1] < b[1] \/ (a[1] = b[1] /\ a[2] < b[2])

\* lines 850-855 applied to a list of items
MonthlyOf(items) ==
  LET sorted == SortSeq(MonthTally(items), LAMBDA a, b : MonthBelow(a.month, b.month))
  IN  [i \in 1..Len(sorted) |->
         [month |-> sorted[i].month, income |-> sorted[i].income,
          expense |-> sorted[i].expense,
          balance |-> sorted[i].income - sorted[i].expense]]

\* the months of the items of the selected month only
monthlyData_OfMonth == MonthlyOf(monthItems)
\* lines 841-856
monthlyData == MonthlyOf(Rows)

\* C17: monthlyData has exactly one entry for every year-month that a
\* transaction in memory has, in strictly ascending order of the month,
\* with the income and expense sums of that month over all transactions
\* in memory and their difference as balance; the selected month and the
\* filters have no part in it (every entry is fixed by the transactions
\* in memory alone, whatever the month and the filters are).
C17_MonthlyDataCoversAllMonths ==
  LET all == BagToSet(transactions)
  IN  /\ {monthlyData[i].month : i \in 1..Len(monthlyData)}
           = {toMonth(r.date) : r \in all}
      /\ \A i \in 1..(Len(monthlyData) - 1) :
           MonthBelow(monthlyData[i].month, monthlyData[i + 1].month)
      /\ \A i \in 1..Len(monthlyData) :
           LET of == {r \in all : toMonth(r.date) = monthlyData[i].month}
           IN  /\ monthlyData[i].income = AmountOf({r \in of : r.type = "income"})
               /\ monthlyData[i].expense = AmountOf({r \in of : r.type = "expense"})
               /\ monthlyData[i].balance
                    = AmountOf({r \in of : r.type = "income"})
                        - AmountOf({r \in of : r.type = "expense"})

\* transactions of three months are in memory while the selected month is
\* 2024-01 and only expenses are shown
C17_Witness ==
  /\ Len(monthlyData) = 3
  /\ month = <<2024, 1>>
  /\ filters.type = "expense"
  /\ monthlyData[1].month = <<2023, 12>>

\* budgets[name] || 0
BudgetOf(name) == IF name \in DOMAIN budgets THEN budgets[name] ELSE 0

\* reduce((sum, name) => sum + (budgets[name] || 0), 0) over the names
RECURSIVE SumBudgets(_)
SumBudgets(names) ==
  IF names = {} THEN 0
  ELSE LET name == CHOOSE name \in names : TRUE
       IN  BudgetOf(name) + SumBudgets(names \ {name})

\* line 778: the quotient and the product are doubles
Percent(expenseTotal, budgetTotal) ==
  IF budgetTotal > 0
  THEN MathRound(Times(Divide(expenseTotal, budgetTotal), 100))
  ELSE 0

\* the budgets of every category, whatever the type filter is
budgetStats_AnyType ==
  LET expenseTotal == SumAmounts(OfType(filteredItems, "expense"))
      budgetCategories ==
        IF filters.category = "all" THEN DOMAIN budgets ELSE {filters.category}
      budgetTotal == SumBudgets(budgetCategories)
  IN  [budgetTotal |-> budgetTotal, expenseTotal |-> expenseTotal,
       remaining |-> budgetTotal - expenseTotal,
       percent |-> Percent(expenseTotal, budgetTotal)]
\* lines 766-790, without the two day counts, which are read off the clock
budgetStats ==
  LET expenseTotal == SumAmounts(OfType(filteredItems, "expense"))
      budgetCategories ==
        IF filters.type = "income" THEN {}
        ELSE IF filters.category = "all" THEN DOMAIN budgets
        ELSE {filters.category}
      budgetTotal == SumBudgets(budgetCategories)
  IN  [budgetTotal |-> budgetTotal, expenseTotal |-> expenseTotal,
       remaining |-> budgetTotal - expenseTotal,
       percent |-> Percent(expenseTotal, budgetTotal)]

\* the sum of the budgets in memory
AllBudgets ==
  LET names == DOMAIN budgets
      Sum[S \in SUBSET names] ==
        IF S = {} THEN 0
        ELSE LET c == CHOOSE c \in S : TRUE IN budgets[c] + Sum[S \ {c}]
  IN  Sum[names]

\* C18: budgetStats.budgetTotal is 0 when the type filter is income; when
\* it is not and a category is selected it is the budget of that category,
\* 0 if it has none; otherwise it is the sum of all budgets. remaining is
\* budgetTotal minus expenseTotal and may be negative.
C18_BudgetTotalFollowsFilters ==
  /\ filters.type = "income" => budgetStats.budgetTotal = 0
  /\ (filters.type # "income" /\ filters.category # "all") =>
       budgetStats.budgetTotal
         = IF filters.category \in DOMAIN budgets THEN budgets[filters.category] ELSE 0
  /\ (filters.type # "income" /\ filters.category = "all") =>
       budgetStats.budgetTotal = AllBudgets
  /\ budgetStats.expenseTotal = AmountOf({r \in InView : r.type = "expense"})
  /\ budgetStats.remaining
       = budgetStats.budgetTotal - AmountOf({r \in InView : r.type = "expense"})

\* the budget of shokuhi is 10000, 13200 were spent on it and the category
\* filter is on shokuhi: remaining is -3200
C18_Witness ==
  /\ filters.category = "shokuhi"
  /\ filters.type = "all"
  /\ budgetStats.budgetTotal = 10000
  /\ budgetStats.remaining = -3200

\* C19: percent is 0 when budgetTotal is 0, and otherwise 100 * expenseTotal
\* / budgetTotal rounded to the nearest integer, a half going up:
\* floor((200 * expenseTotal + budgetTotal) / (2 * budgetTotal)).
C19_PercentIsRoundHalfUp ==
  budgetStats.percent
    = IF budgetStats.budgetTotal = 0 THEN 0
      ELSE (200 * budgetStats.expenseTotal + budgetStats.budgetTotal)
             \div (2 * budgetStats.budgetTotal)

\* 23 spent of a budget of 40
SpentTwentyThreeOfForty ==
  budgetStats.expenseTotal = 23 /\ budgetStats.budgetTotal = 40

\* lines 813-822: the object from category to the sum of its expenses
categorySpendMap ==
  LET map == Tally(OfType(filteredItems, "expense"))
  IN  [name \in {map[i].name : i \in 1..Len(map)} |->
         (CHOOSE e \in SeqToSet(map) : e.name = name).value]

\* categorySpendMap[name] || 0
SpentOn(name) == IF name \in DOMAIN categorySpendMap THEN categorySpendMap[name] ELSE 0

Max(a, b) == IF a >= b THEN a ELSE b

\* the rows with remaining and over as plain differences
budgetChartData_Signed ==
  LET Row(name) ==
        [name |-> name, budget |-> BudgetOf(name), spent |-> SpentOn(name),
         remaining |-> BudgetOf(name) - SpentOn(name),
         over |-> SpentOn(name) - BudgetOf(name)]
  IN  SelectSeq([i \in 1..Len(categories) |-> Row(categories[i])],
                LAMBDA item : item.budget > 0 \/ item.spent > 0)
\* lines 824-834
budgetChartData ==
  LET Row(name) ==
        [name |-> name, budget |-> BudgetOf(name), spent |-> SpentOn(name),
         remaining |-> Max(BudgetOf(name) - SpentOn(name), 0),
         over |-> Max(SpentOn(name) - BudgetOf(name), 0)]
  IN  SelectSeq([i \in 1..Len(categories) |-> Row(categories[i])],
                LAMBDA item : item.budget > 0 \/ item.spent > 0)

\* C20: budgetChartData has one row for every defined category whose budget
\* or whose spending in the filtered set is above 0, and no other row;
\* budget and spent are those of the category, remaining is budget - spent
\* and over is spent - budget, each replaced by 0 when negative. A budget
\* of 10000 and a spending of 12000 for shokuhi give the row (shokuhi,
\* 10000, 12000, 0, 2000).
C20_BudgetChartRows ==
  LET Budget(c) == IF c \in DOMAIN budgets THEN budgets[c] ELSE 0
      Spent(c)  == AmountOf({r \in InView : r.type = "expense" /\ r.category = c})
      rows      == budgetChartData
  IN  /\ {rows[i].name : i \in 1..Len(rows)}
           = {c \in SeqToSet(categories) : Budget(c) > 0 \/ Spent(c) > 0}
      /\ \A i, j \in 1..Len(rows) : rows[i].name = rows[j].name => i = j
      /\ \A i \in 1..Len(rows) :
           LET c == rows[i].name IN
           /\ rows[i].budget = Budget(c)
           /\ rows[i].spent = Spent(c)
           /\ rows[i].remaining = (IF Budget(c) > Spent(c) THEN Budget(c) - Spent(c) ELSE 0)
           /\ rows[i].over = (IF Spent(c) > Budget(c) THEN Spent(c) - Budget(c) ELSE 0)
      /\ (Budget("shokuhi") = 10000 /\ Spent("shokuhi") = 12000) =>
           \E i \in 1..Len(rows) :
             rows[i] = [name |-> "shokuhi", budget |-> 10000, spent |-> 12000,
                        remaining |-> 0, over |-> 2000]

\* the row of the example is shown, and sonota, with a budget of 0 and
\* nothing spent, has no row
C20_Witness ==
  /\ budgetChartData = <<[name |-> "shokuhi", budget |-> 10000, spent |-> 12000,
                          remaining |-> 0, over |-> 2000]>>
  /\ "sonota" \in DOMAIN budgets
  /\ Includes(categories, "sonota")

\* ---------------------------------------------------------------------
\* C21: the filter is a conjunction of independent predicates
\* ---------------------------------------------------------------------

FilterFields == {"type", "purpose", "category", "query", "dateFrom", "dateTo"}

\* the value of a field that lets every item pass
PassAll(field) == IF field \in {"type", "purpose", "category"} THEN "all" ELSE ""

\* what the predicate of one field asks of an item
Holds(f, field, item) ==
  CASE field = "type"     -> item.type = f.type
    [] field = "purpose"  -> item.type = "expense" => item.purpose = f.purpose
    [] field = "category" -> item.category = f.category
    [] field = "query"    -> StrIncludes(LowerCase(item.note), LowerCase(f.query))
    [] field = "dateFrom" -> DateKey(f.dateFrom) <= DateKey(item.date)
    [] field = "dateTo"   -> DateKey(item.date) <= DateKey(f.dateTo)

AllActiveHold(f, item) ==
  \A field \in FilterFields : f[field] # PassAll(field) => Holds(f, field, item)

\* the items of b at the positions of keep, in the order of b
Kept(b, keep) ==
  LET F[i \in 0..Len(b)] ==
        IF i = 0 THEN <<>>
        ELSE IF i \in keep THEN Append(F[i - 1], b[i]) ELSE F[i - 1]
  IN  F[Len(b)]

\* a is what is left of b when some of its items are struck out
IsSubList(a, b) == \E keep \in SUBSET (1..Len(b)) : a = Kept(b, keep)

\* g is f with some of its predicates relaxed to pass-all
Relaxed(f, g) == \A field \in FilterFields : g[field] \in {f[field], PassAll(field)}

\* C21: filteredItems is a sub-list of the month's items in the same order,
\* an item of the month is in it exactly when every active predicate (type,
\* purpose, category, note query, dateFrom and dateTo with inclusive bounds)
\* holds for it, and a change of the filters that only relaxes predicates
\* to pass-all leaves every item of the previous result in the result.
C21_FilterIsConjunction ==
  /\ [](/\ IsSubList(filteredItems, monthItems)
        /\ filteredItems
             = SelectSeq(monthItems, LAMBDA item : AllActiveHold(filters, item)))
  /\ [][(transactions' = transactions /\ month' = month /\ Relaxed(filters, filters'))
          => IsSubList(filteredItems, filteredItems')]_vars

\* three items of 2024-01 in memory and dateFrom on the date of two of them
C21_Witness ==
  /\ filters.dateFrom = "2024-01-10"
  /\ filters.type = "all"
  /\ Len(monthItems) = 3
  /\ Len(filteredItems) = 2
  /\ \A i \in 1..2 : filteredItems[i].date = "2024-01-10"

\* ---------------------------------------------------------------------
\* The filters while the category list changes: the filter inputs and the
\* category handlers of one page
\* ---------------------------------------------------------------------

InitFilters ==
  /\ Fresh
  /\ tz = 0
  /\ txStore = EmptyBag
  /\ budStore = {BRow(User, <<2024, 1>>, "shokuhi", 1)}

NextFilters ==
  \/ \E value \in {"all"} \cup types : SetFilter("type", value)
  \/ \E value \in {"all", "waste"} : SetFilter("purpose", value)
  \/ \E value \in {"all", "shokuhi", "sonota", "rodo", "ryoko"} :
       SetFilter("category", value)
  \/ SetFilter("query", "memo")
  \/ ResetFilters
  \/ StartLoadCategories(1)
  \/ StartAddCategory(1, "ryoko")
  \/ StartRenameCategory(1, "shokuhi", "ryoko")
  \/ \E name \in {"shokuhi", "sonota", "ryoko"} : StartDeleteCategory(1, name)
  \/ CategorySteps(1)

SpecFilters == InitFilters /\ [][NextFilters]_vars

\* C22: after the corrections have run, whatever filter changes and changes
\* of the category list came before, a type filter other than expense goes
\* with the purpose filter all; with the type filter all, a purpose the user
\* chooses is reset.
C22_PurposeOnlyWithExpense ==
  [](filters.type # "expense" => filters.purpose = "all")

\* the type filter was set to income and the category list was changed by
\* an add, with a category filter chosen under the new type
C22_Witness ==
  /\ filters.type = "income"
  /\ filters.category = "rodo"
  /\ filters.purpose = "all"
  /\ Includes(categories, "ryoko")

\* C23: after the corrections have run, whatever filter changes and
\* category adds, renames and deletes came before, the category filter is
\* all or a member of the categories implied by the type filter: the income
\* categories for income, the owner's categories for expense, both for all.
C23_CategoryFilterIsAnOption ==
  [](filters.category = "all" \/ filters.category \in filterCategoryOptions)

\* the type filter is all, the category filter names shokuhi, and the
\* category list holds no shokuhi any more
C23_StaleCategoryFilter ==
  /\ filters.type = "all"
  /\ filters.category = "shokuhi"
  /\ ~Includes(categories, "shokuhi")
  /\ \A s \in Slots : IsIdle(s)

\* ---------------------------------------------------------------------
\* C24: what an accepted and what a declined rollover leaves behind
\* ---------------------------------------------------------------------

\* the insert of the rollover in slot s is answered with success
RolloverInserted(s) == StepsAt(s, "mac_insert") /\ tasks'[s].pc = "lb_select"

\* the load that ends an accepted rollover in slot s is answered and the
\* handler finishes
RolloverFinishes(s) ==
  /\ StepsAt(s, "lb_select")
  /\ tasks[s].kind = "loadBudgets"
  /\ tasks[s].m2 # NoMonth
  /\ tasks'[s] = Idle

\* the insert leaves in M exactly the pairs of P, and P as it was
C24_AcceptCopiesPairs ==
  [][\A s \in Slots :
       RolloverInserted(s)
       => /\ Pairs(budStore', tasks[s].m) = Pairs(budStore, tasks[s].m2)
          /\ SelectBudgets(budStore', session, tasks[s].m2)
               = SelectBudgets(budStore, session, tasks[s].m2)]_vars

\* when the handler finishes, the map in memory is what is stored for M
C24_MemoryShowsCopy ==
  [][\A s \in Slots :
       RolloverFinishes(s)
       => budgets' = BudgetMap(SelectBudgets(budStore', session, tasks[s].m))]_vars

\* a declined prompt ends the handler with no write
C24_DeclineWritesNothing ==
  [][\A s \in Slots :
       (StepsAt(s, "mac_confirm") /\ tasks'[s].pc # "mac_insert")
       => (tasks'[s] = Idle /\ budStore' = budStore)]_vars

\* C24: when the user accepts the rollover prompt for the target month M
\* with the source month P and the insert succeeds, the stored budgets of
\* M are exactly the (category, amount) pairs of P, the budgets of P are
\* unchanged, and the budgets map in memory equals the stored budgets of M
\* once the handler finishes; when the user declines, no budget row is
\* written.
C24_RolloverOutcome ==
  /\ C24_AcceptCopiesPairs
  /\ C24_MemoryShowsCopy
  /\ C24_DeclineWritesNothing

\* the copy is stored for 2024-02 and no handler runs, and the map in
\* memory is empty
C24_CopyStoredButNotShown ==
  /\ \A s \in Slots : IsIdle(s)
  /\ month = <<2024, 2>>
  /\ flags[<<2024, 2>>] = "prompted"
  /\ SelectBudgets(budStore, session, <<2024, 2>>) # {}
  /\ budgets = NoMap

\* ---------------------------------------------------------------------
\* C25: the budgets of a deleted category
\* ---------------------------------------------------------------------

\* handleDeleteCategory in slot s finishes, the category row deleted
DeleteFinishes(s) ==
  /\ tasks[s].kind = "deleteCategory"
  /\ tasks[s].pc \in {"lc_select", "lc_seed", "lc_reselect"}
  /\ tasks'[s] = Idle

\* C25: when handleDeleteCategory(name) finishes with the category row
\* deleted, the store holds no budget row of the owner with that category
\* in any month, and the handler's delete leaves the budgets of all other
\* categories as they were.
C25_DeleteCascadesToBudgets ==
  /\ [][\A s \in Slots :
         DeleteFinishes(s)
         => ~\E r \in budStore' : r.user_id = session /\ r.category = tasks[s].n]_vars
  /\ [][\A s \in Slots :
         StepsAt(s, "dc_delete_budgets")
         => {r \in budStore' : r.category # tasks[s].n}
              = {r \in budStore : r.category # tasks[s].n}]_vars

\* shokuhi is no category of the owner any more, no handler runs, and a
\* budget of shokuhi is still stored
C25_BudgetOfDeletedCategory ==
  /\ \A s \in Slots : IsIdle(s)
  /\ SelectCategories(catStore, session) = <<"sonota">>
  /\ \E r \in budStore : r.user_id = session /\ r.category = "shokuhi"

\* ---------------------------------------------------------------------
\* C26: overlapping loads of one month
\* ---------------------------------------------------------------------

\* C26: at most one copy prompt is ever shown for a target month, also when
\* loads of that month overlap (as the two loads the session effect and the
\* month effect start when a session appears), and no insert of an accepted
\* copy is refused for the unique key because the rows are already there.
C26_OnePromptOneInsert ==
  /\ [](\A m \in Months : prompts[m] <= 1)
  /\ [][\A s \in Slots :
         (StepsAt(s, "mac_insert") /\ netOk)
         => ~BudgetsUniqueViolation(budStore, tasks[s].rows)]_vars

\* two prompts were shown for 2024-02 and the copy is stored once
C26_PromptedTwice ==
  /\ prompts[<<2024, 2>>] = 2
  /\ \A s \in Slots : IsIdle(s)
  /\ status.msg = "budget copy error"
  /\ status.err = "duplicate key"

\* ---------------------------------------------------------------------
\* C27: the month is switched while loads are in flight; the network is up
\* ---------------------------------------------------------------------

InitSwitch ==
  /\ Init
  /\ tz = 0

NextSwitch ==
  \E s \in Slots :
    \/ FirstFree(s) /\ StartLoadBudgets(s)
    \/ \E mo \in Months : FirstFree(s) /\ SetMonth(s, mo)
    \/ RolloverSteps(s)

SpecSwitch == InitSwitch /\ [][NextSwitch]_vars

\* C27: when the last budget load in flight completes, the budgets map in
\* memory equals the stored budgets of the month that is selected, also
\* when the month was switched while an earlier load was in flight and the
\* answers arrive in the opposite order of the requests.
C27_MemoryShowsSelectedMonth ==
  [][( /\ \E s \in Slots : ~IsIdle(s)
       /\ \A s \in Slots : tasks'[s] = Idle )
     => budgets' = BudgetMap(SelectBudgets(budStore', session', month'))]_vars

\* 2024-01 is selected and its budget is stored, no load is in flight, and
\* the map in memory is that of another month
C27_OtherMonthShown ==
  /\ \A s \in Slots : IsIdle(s)
  /\ month = <<2024, 1>>
  /\ prompts = [m \in Months |-> 0]
  /\ BudgetMap(SelectBudgets(budStore, session, month)) = [shokuhi |-> 1]
  /\ budgets = [sonota |-> 2]

\* ---------------------------------------------------------------------
\* C28: a manual copy that fails
\* ---------------------------------------------------------------------

\* C28: a manual copy that fails leaves the stored budgets of the target
\* month as they were before the action.  The handler can fail at each of
\* its three requests, so every step of it other than the insert that
\* succeeds leaves the target month's rows as they are; in particular the
\* delete does, the insert after it being able to return an error.
C28_FailedCopyKeepsTarget ==
  [][\A s \in Slots :
       ( /\ tasks[s].kind = "copyBudgets"
         /\ tasks[s].pc \in {"cp_select", "cp_delete", "cp_insert"}
         /\ tasks'[s] # tasks[s]
         /\ ~CopyInserted(s) )
       => SelectBudgets(budStore', session, tasks[s].m)
            = SelectBudgets(budStore, session, tasks[s].m)]_vars

\* the copy has ended with the error of its insert, the budget of the
\* target month that is still shown in memory is stored no more, and the
\* target month has no stored budget
C28_TargetLost ==
  /\ \A s \in Slots : IsIdle(s)
  /\ status = St("budget copy error", "network")
  /\ DOMAIN budgets = {"sonota"}
  /\ SelectBudgets(budStore, session, month) = {}

\* ---------------------------------------------------------------------
\* C29: the transactions in memory after a rename
\* ---------------------------------------------------------------------

\* handleRenameCategory in slot s finishes, the category renamed, the
\* stored transactions renamed, and its closing load answered
RenameFinishes(s) ==
  /\ tasks[s].kind = "renameCategory"
  /\ tasks[s].pc \in {"lc_select", "lc_seed", "lc_reselect"}
  /\ tasks'[s] = Idle
  /\ netOk
  /\ Includes(catStore, CatRow(session, tasks[s].n2))
  /\ CountByCategory(txStore, session, tasks[s].n) = 0

\* C29: when a successful handleRenameCategory(old -> new) has finished, no
\* transaction in memory has the category old: every transaction in memory
\* is a stored one, so that the spend shown for new counts what was logged
\* under old.
C29_MemoryFollowsRename ==
  [][\A s \in Slots :
       RenameFinishes(s)
       => /\ \A r \in BagToSet(transactions') : r.category # tasks[s].n
          /\ \A r \in BagToSet(transactions') : BagIn(r, txStore')]_vars

\* shokuhi was renamed to ryoko in the store, no handler runs, and the
\* transaction in memory is still one of shokuhi
C29_OldNameInMemory ==
  /\ \A s \in Slots : IsIdle(s)
  /\ categories = <<"ryoko", "sonota">>
  /\ CountByCategory(txStore, session, "ryoko") = 1
  /\ CountByCategory(transactions, session, "shokuhi") = 1

\* ---------------------------------------------------------------------
\* C30: the categories of the stored budgets
\* ---------------------------------------------------------------------

\* C30: whatever category adds, renames and deletes and budget writes came
\* before, once the handlers have finished every stored budget row has the
\* name of a stored category of its owner; a rename old -> new leaves no
\* budget under old, the budgets of old being those of new in every month.
C30_BudgetsNameCategories ==
  /\ []((\A s \in Slots : IsIdle(s))
         => \A r \in budStore : Includes(catStore, CatRow(r.user_id, r.category)))
  /\ [][\A s \in Slots :
         RenameFinishes(s)
         => ~\E r \in budStore' : r.user_id = session /\ r.category = tasks[s].n]_vars

\* shokuhi was renamed to ryoko, no handler runs, and the budget of
\* 2024-01 is still stored under shokuhi
C30_BudgetUnderOldName ==
  /\ \A s \in Slots : IsIdle(s)
  /\ SelectCategories(catStore, session) = <<"ryoko", "sonota">>
  /\ BRow(User, <<2024, 1>>, "shokuhi", 1) \in budStore

\* ---------------------------------------------------------------------
\* C31: the budget drafts when the month is switched.  Nothing is typed
\* into a budget input: every draft comes from loadBudgets.  Both months
\* have a budget, so no load goes on to the rollover.
\* ---------------------------------------------------------------------

InitDrafts ==
  /\ Fresh
  /\ tz = 0
  /\ txStore = EmptyBag
  /\ budStore = {BRow(User, <<2024, 1>>, "shokuhi", 1),
                 BRow(User, <<2024, 2>>, "sonota", 2)}

NextDrafts ==
  \/ NetFlip
  \/ \E s \in Slots :
       \/ FirstFree(s) /\ StartLoadBudgets(s)
       \/ \E mo \in {<<2024, 1>>, <<2024, 2>>} : FirstFree(s) /\ SetMonth(s, mo)
       \/ \E name \in {"shokuhi", "sonota"} : FirstFree(s) /\ StartSaveBudget(s, name)
       \/ LbSelect(s)
       \/ SbUpsert(s)

SpecDrafts == InitDrafts /\ [][NextDrafts]_vars

\* the load of month B in slot s is answered with B's rows
LoadAnswered(s) == StepsAt(s, "lb_select") /\ netOk

\* C31: after the budgets of a newly selected month B are loaded, the draft
\* of a category is B's stored amount when B has a budget for it, and
\* otherwise holds no amount of a month viewed before (nothing being typed,
\* it holds nothing); a save of an untouched row therefore writes no amount
\* into B that B did not have.
C31_DraftsAreOfTheMonth ==
  /\ [][\A s \in Slots :
         LoadAnswered(s)
         => LET map == BudgetMap(SelectBudgets(budStore, session, tasks[s].m)) IN
            /\ DOMAIN budgetDrafts' = DOMAIN map
            /\ \A c \in DOMAIN map : budgetDrafts'[c] = Num(2 * map[c])]_vars
  /\ [][\A s \in Slots :
         StepsAt(s, "sb_upsert")
         => Pairs(budStore', tasks[s].m) = Pairs(budStore, tasks[s].m)]_vars

\* the amount of shokuhi of 2024-01 is stored for 2024-02, where sonota
\* alone had a budget
C31_AmountOfOtherMonthSaved ==
  /\ \A s \in Slots : IsIdle(s)
  /\ month = <<2024, 2>>
  /\ BRow(User, <<2024, 2>>, "shokuhi", 1) \in budStore

\* ---------------------------------------------------------------------
\* C32, C33: the rollover flag when there is nothing to copy
\* ---------------------------------------------------------------------

\* C32: when the read of the previous month's budgets returns an error, the
\* rollover flag of the target month stays unset; the flag becomes
\* "skipped" only when the read succeeded and returned no row.
C32_ErrorLeavesFlagUnset ==
  [][\A s \in Slots :
       StepsAt(s, "mac_select")
       => LET m == tasks[s].m IN
          /\ ~netOk => flags'[m] = flags[m]
          /\ (flags'[m] = "skipped" /\ flags[m] # "skipped")
               => (netOk /\ SelectBudgets(budStore, tasks[s].token, tasks[s].m2) = {})]_vars

\* 2024-02 has no budget and 2024-01 has one, no prompt was shown for
\* 2024-02, and its flag says skipped
C32_SkippedByError ==
  /\ \A s \in Slots : IsIdle(s)
  /\ flags[<<2024, 2>>] = "skipped"
  /\ prompts[<<2024, 2>>] = 0
  /\ tz = 0
  /\ budStore = {BRow(User, <<2024, 1>>, "shokuhi", 1)}

\* loads and month changes in slot 1 and saves of a budget in slot 2, the
\* network up; nothing is stored at first, or a budget of 2023-12 alone
InitSkip ==
  /\ Fresh
  /\ txStore = EmptyBag
  /\ budStore \in {{}, {BRow(User, <<2023, 12>>, "sonota", 2)}}

NextSkip ==
  \/ StartLoadBudgets(1)
  \/ \E mo \in Months : SetMonth(1, mo)
  \/ handleBudgetChange("sonota", Num(6))
  \/ StartSaveBudget(2, "sonota")
  \/ \E s \in Slots : RolloverSteps(s) \/ SbUpsert(s)

SpecSkip == InitSkip /\ [][NextSkip]_vars

\* C33: when the target month has no stored budget and the month before it
\* has none either, the load shows no prompt and writes no budget row and
\* ends there; and once a month is marked skipped and no load that passed
\* the flag before is in flight, no load of it shows a prompt, also when
\* budgets of the month before were stored since.
C33_NothingToCopyNeverPrompts ==
  /\ [][\A s \in Slots :
         ( /\ StepsAt(s, "mac_select")
           /\ ~HasBudgets(tasks[s].m)
           /\ ~HasBudgets(MonthBefore(tasks[s].m)) )
         => ( /\ prompts' = prompts
              /\ budStore' = budStore
              /\ tasks'[s] = Idle )]_vars
  /\ [][\A m \in Months :
         ( /\ flags[m] = "skipped"
           /\ \A s \in Slots : ~(tasks[s].pc = "mac_select" /\ tasks[s].m = m) )
         => prompts'[m] = prompts[m]]_vars

\* 2024-02 and 2024-01 have no budget, and a prompt is open for 2024-02
C33_PromptWithEmptyPreviousMonth ==
  /\ ~HasBudgets(<<2024, 2>>)
  /\ ~HasBudgets(<<2024, 1>>)
  /\ \E s \in Slots : tasks[s].pc = "mac_confirm" /\ tasks[s].m = <<2024, 2>>

\* ---------------------------------------------------------------------
\* C34: the purpose predicate, over every filter a render can see.  A
\* change of a filter input and the effect of lines 720-730 are two steps
\* here: the list is rendered once with the filters as the input left them.
\* ---------------------------------------------------------------------

\* onChange of the type and purpose selects (lines 1055 and 1070)
ChangeFilter(field, value) ==
  /\ session # NoSession
  /\ ~Blocked
  /\ filters = CorrectFilters(filters, categories)
  /\ field = "purpose" => filters.type # "income"
  /\ filters' = [filters EXCEPT ![field] = value]
  /\ filters' # filters
  /\ UNCHANGED <<memVars, storeVars, envVars, tasks, downloads>>

\* the effect of lines 720-730 runs after the render
RunFilterEffect ==
  /\ filters' = CorrectFilters(filters, categories)
  /\ filters' # filters
  /\ UNCHANGED <<memVars, storeVars, envVars, tasks, downloads>>

InitPurpose ==
  /\ Fresh
  /\ tz = 0
  /\ txStore \in StatStores
  /\ budStore = {BRow(User, <<2024, 1>>, "shokuhi", 10000),
                 BRow(User, <<2024, 2>>, "sonota", 40)}

NextPurpose ==
  \/ StartLoadTransactions(1)
  \/ LtSelect(1)
  \/ \E mo \in {<<2024, 1>>, <<2024, 2>>} : SetMonth(1, mo)
  \/ LbSelect(1)
  \/ \E value \in {"all"} \cup types : ChangeFilter("type", value)
  \/ \E value \in {"all", "waste", "consumption"} : ChangeFilter("purpose", value)
  \/ RunFilterEffect

SpecPurpose == InitPurpose /\ [][NextPurpose]_vars

\* item is one of the items of the list
InList(item, list) == \E i \in 1..Len(list) : list[i] = item

\* C34: with a purpose filter other than all, an income item of the month
\* is in filteredItems exactly when it would be with the purpose filter
\* all, and an expense item is in it only if its purpose is the one of the
\* filter.
C34_PurposeIsForExpenses ==
  filters.purpose # "all"
  => \A i \in 1..Len(monthItems) :
       LET item == monthItems[i] IN
       /\ item.type = "income"
            => (InList(item, filteredItems)
                  <=> AllActiveHold([filters EXCEPT !.purpose = "all"], item))
       /\ (item.type = "expense" /\ InList(item, filteredItems))
            => item.purpose = filters.purpose

\* type all and purpose waste: of the three items of 2024-01 the income
\* and the expense of purpose waste are listed
C34_Witness ==
  /\ filters.type = "all"
  /\ filters.purpose = "waste"
  /\ Len(monthItems) = 3
  /\ Len(filteredItems) = 2
  /\ \E i \in 1..2 : filteredItems[i].type = "income"
  /\ \E i \in 1..2 : filteredItems[i].type = "expense" /\ filteredItems[i].purpose = "waste"

\* ---------------------------------------------------------------------
\* C35: the month before a month
\* ---------------------------------------------------------------------

\* C35: for every month key, getPreviousMonthFrom gives the calendar month
\* immediately before it (December of the year before for a January),
\* whatever the time zone of the device: the month maybeAutoCopyBudgets
\* reads is the month before the target month.
C35_PreviousCalendarMonth ==
  [][\A s \in Slots :
       (StepsAt(s, "lb_select") /\ tasks'[s].pc = "mac_select")
       => /\ tasks'[s].m2 = getPreviousMonthFrom(tasks[s].m, tz)
          /\ getPreviousMonthFrom(tasks[s].m, tz) = MonthBefore(tasks[s].m)]_vars

\* the rollover of 2024-02 reads 2023-12
C35_TwoMonthsBack ==
  \E s \in Slots :
    /\ tasks[s].pc = "mac_select"
    /\ tasks[s].m = <<2024, 2>>
    /\ tasks[s].m2 = <<2023, 12>>

\* ---------------------------------------------------------------------
\* C36: the budget summary and the budget chart
\* ---------------------------------------------------------------------

\* the sum of one field over the rows of the chart
ChartSum(field) ==
  LET rows == budgetChartData
      Sum[i \in 0..Len(rows)] == IF i = 0 THEN 0 ELSE Sum[i - 1] + rows[i][field]
  IN  Sum[Len(rows)]

\* C36: with the type filter and the category filter both all,
\* budgetStats.budgetTotal is the sum of the budget values of the rows of
\* budgetChartData and budgetStats.expenseTotal is the sum of their spent
\* values, in every state.
C36_SummaryAgreesWithChart ==
  (filters.type = "all" /\ filters.category = "all")
  => /\ budgetStats.budgetTotal = ChartSum("budget")
     /\ budgetStats.expenseTotal = ChartSum("spent")

\* no filter is set, the budgets in memory hold one of ryoko, which is not
\* in the category list, and the summary counts it while the chart has no
\* row for it
C36_BudgetOutsideTheList ==
  /\ filters = NoFilters
  /\ "ryoko" \in DOMAIN budgets
  /\ ~Includes(categories, "ryoko")
  /\ budgetStats.budgetTotal = 87
  /\ ChartSum("budget") = 80

\* ---------------------------------------------------------------------
\* C37: two owners on one device.  Owner A has no budget at all, owner B
\* has one for 2024-01; the page loads the budgets in slot 1 and signs out
\* in slot 2; a prompt is declined.
\* ---------------------------------------------------------------------

Owner == "B"

\* lines 134-136: the listener is called with the session of user u
SignIn(u) ==
  /\ session = NoSession
  /\ session' = u
  /\ UNCHANGED <<status, loading, transactions, categories, budgets, budgetDrafts,
                 copyFromMonth, month, form, storeVars, envVars, viewVars, tasks>>

InitOwners ==
  /\ Fresh
  /\ tz = 0
  /\ txStore = EmptyBag
  /\ budStore = {BRow(Owner, <<2024, 1>>, "sonota", 2)}

NextOwners ==
  \/ StartLoadBudgets(1)
  \/ \E mo \in {<<2024, 1>>, <<2024, 2>>} : SetMonth(1, mo)
  \/ LbSelect(1)
  \/ MacSelect(1)
  \/ MacConfirm(1, FALSE)
  \/ StartLogout(2)
  \/ LoSignOut(2)
  \/ \E u \in {User, Owner} : SignIn(u)

SpecOwners == InitOwners /\ [][NextOwners]_vars

\* C37: the rollover flag of one owner does not count for another: when a
\* load of owner B for a month M in which B has no budget, the month
\* before holding budgets of B, ends without a prompt, B was prompted for M
\* once before, whatever owner A was prompted for or skipped on the same
\* device; and B is never prompted twice.
C37_FlagIsPerOwner ==
  /\ [](\A m \in Months : prompts[m] <= 1)
  /\ [][( /\ StepsAt(1, "lb_select")
          /\ tasks[1].token = Owner
          /\ SelectBudgets(budStore, Owner, tasks[1].m) = {}
          /\ SelectBudgets(budStore, Owner, MonthBefore(tasks[1].m)) # {}
          /\ tasks'[1] = Idle )
        => prompts'[tasks[1].m] = 1]_vars

\* B is signed in and has loaded 2024-02, the budget of 2024-01 is B's, and
\* no prompt was ever shown for 2024-02, which is marked skipped
C37_OwnerNeverPrompted ==
  /\ session = Owner
  /\ \A s \in Slots : IsIdle(s)
  /\ month = <<2024, 2>>
  /\ budgetDrafts = NoMap
  /\ flags[<<2024, 2>>] = "skipped"
  /\ prompts[<<2024, 2>>] = 0
====
